---- MODULE Spec2Model ----
(***************************************************************************)
(* Schema synchronisation of basic-cli: the status, push and pull flows,   *)
(* their analyzers and the version comparator.                             *)
(*                                                                         *)
(* One behaviour of the model is one run of one command (status, push or   *)
(* pull) against a local config file and a remote project schema.          *)
(***************************************************************************)
EXTENDS Integers, FiniteSets, Sequences, TLC

\* ------------------------------------------------------------------------
\* Bounds of the model
\* ------------------------------------------------------------------------
MaxVersion == 1
NumTables == 1
MaxEdits == 1

\* ------------------------------------------------------------------------
\* Data model (src/unnamed/part_000: Schema, ValidationResult)
\* ------------------------------------------------------------------------
\* A version field that is absent from the schema object (JS undefined).
Undefined == -1

Versions == 0..MaxVersion

\* The tables of a schema, abstracted to an identity: two schemas have the
\* same content iff they carry the same table id.  EmptyTables is `{}`.
EmptyTables == 0

Tables == EmptyTables..NumTables

ProjectIds == {"p1"}

\* A project_id that is absent or empty.
NoProjectId == ""

Schema == [project_id : ProjectIds, version : Versions \cup {Undefined}, tables : Tables]

\* A config file whose schema readSchemaFromConfig rejects.
BadSchema == [project_id |-> NoProjectId, version |-> 0, tables |-> EmptyTables]

\* Optional values (null | T) are sequences of length at most one.
Null == <<>>

Some(x) == <<x>>

Opt(S) == {Null} \cup {Some(x) : x \in S}

\* The config file: absent, or holding a schema literal.
LocalFiles == Opt(Schema \cup {BadSchema})

\* The backend: no schema for the project, or one.
RemoteStores == Opt(Schema)

None == "none"

Flows == {"status", "push", "pull"}

\* Behaviours of POST /utils/schema/verifyUpdateSchema
ValidateBehaviours == {"valid", "invalid-errors", "invalid-no-errors", "throw"}

\* Behaviours of POST /utils/schema/compareSchema
CompareBehaviours == {"truthful", "match", "differ", "throw"}

Keys == {"up", "down", "return", "escape", "q", "other"}

VARIABLES
    flow,           \* the command that runs
    phase,          \* PushState.phase / PullState.phase / StatusState
    pc,             \* position inside the running async function
    error,          \* state.error
    statusResult,   \* state.statusResult / state.result
    selectedOption, \* 'yes' | 'no'
    localFile,      \* the config file in the working directory
    remoteStore,    \* the schema the backend holds for the project
    valBehaviour,   \* how the validation endpoint answers in this run
    cmpBehaviour,   \* how the content-comparison endpoint answers
    localConfig,    \* localConfig of the function that runs
    remoteSchema,   \* remoteSchema of the function that runs
    checked,        \* what the analyzer was given, and the endpoints' answers to it
    calls,          \* number of calls of each collaborator
    sent,           \* schema passed to pushProjectSchema
    opResult,       \* state.pushResult / state.pullResult
    exitCode,       \* process exit code
    edits           \* changes made by others while the prompt is open

vars == <<flow, phase, pc, error, statusResult, selectedOption, localFile,
          remoteStore, valBehaviour, cmpBehaviour, localConfig, remoteSchema,
          checked, calls, sent, opResult, exitCode, edits>>

\* ------------------------------------------------------------------------
\* Version Comparator (src/src/lib/schema.ts: compareVersions)
\* ------------------------------------------------------------------------
\* JS `version || 0`: undefined and 0 both give 0.
OrZero(v) == IF v = Undefined \/ v = 0 THEN 0 ELSE v

\* compareVersions with the two versions taken the wrong way round.
compareVersions_Swapped(local, remote) ==
    LET localVersion == OrZero(local.version)
        remoteVersion == OrZero(remote.version)
    IN [status |-> IF localVersion = remoteVersion THEN "equal"
                   ELSE IF remoteVersion > localVersion THEN "ahead"
                   ELSE "behind",
        localVersion |-> localVersion,
        remoteVersion |-> remoteVersion]

compareVersions(local, remote) ==
    LET localVersion == OrZero(local.version)
        remoteVersion == OrZero(remote.version)
    IN [status |-> IF localVersion = remoteVersion THEN "equal"
                   ELSE IF localVersion > remoteVersion THEN "ahead"
                   ELSE "behind",
        localVersion |-> localVersion,
        remoteVersion |-> remoteVersion]

\* ------------------------------------------------------------------------
\* Remote endpoints (src/src/lib/api.ts)
\* ------------------------------------------------------------------------
\* ApiClient.validateSchema: the answer {valid, errors?}, or a thrown error.
validateSchema(schema) ==
    [threw |-> valBehaviour = "throw",
     valid |-> valBehaviour = "valid",
     errors |-> valBehaviour = "invalid-errors"]

\* ApiClient.compareSchema: {valid}, or a thrown error.  A truthful backend
\* answers valid iff the schema equals the one it stores.
compareSchema(schema) ==
    [threw |-> cmpBehaviour = "throw",
     valid |-> CASE cmpBehaviour = "match" -> TRUE
                 [] cmpBehaviour = "truthful" -> remoteStore = Some(schema)
                 [] OTHER -> FALSE]

\* The empty schema used when the project has no remote schema.
EmptySchema(projectId) == [project_id |-> projectId, version |-> 0, tables |-> EmptyTables]

\* ------------------------------------------------------------------------
\* Status Analyzer, one per flow
\* ------------------------------------------------------------------------
\* baseResult of the analyzers, completed by the fields of one return
\* statement; validated / compared count the endpoint calls made on the way.
Result(projectId, comparison, status, hint, needsConfirmation, validationErrors, validated, compared) ==
    [status |-> status,
     projectId |-> projectId,
     localVersion |-> comparison.localVersion,
     remoteVersion |-> comparison.remoteVersion,
     hint |-> hint,
     needsConfirmation |-> needsConfirmation,
     validationErrors |-> validationErrors,
     validated |-> validated,
     compared |-> compared]

\* `validation.valid === false && validation.errors`
ReportsErrors(validation) == validation.valid = FALSE /\ validation.errors

\* `comparison.localVersion === 0 && comparison.remoteVersion === 0`
BothZero(comparison) == comparison.localVersion = 0 /\ comparison.remoteVersion = 0

\* --- src/unnamed/part_010: analyzeStatus ---------------------------------
\* analyzeStatus (behind) with the prompt of the pull analyzer.
analyzeStatusBehind_Confirm(config, comparison) ==
    Result(config.projectId, comparison, "behind", "run-pull", TRUE, FALSE, 0, 0)

analyzeStatusBehind(config, comparison) ==
    Result(config.projectId, comparison, "behind", "run-pull", FALSE, FALSE, 0, 0)

analyzeStatusAhead(config, comparison) ==
    LET id == config.projectId
        validation == validateSchema(config.schema)
    IN IF validation.threw
       THEN Result(id, comparison, "invalid", "validate-error", FALSE, FALSE, 1, 0)
       ELSE IF ReportsErrors(validation)
       THEN Result(id, comparison, "invalid", "fix-errors", FALSE, TRUE, 1, 0)
       ELSE Result(id, comparison, "ahead", "run-push", FALSE, FALSE, 1, 0)

\* analyzeStatusEqual taking equal nonzero versions as current without
\* asking the content-comparison endpoint.
analyzeStatusEqual_NoCompare(config, comparison) ==
    LET id == config.projectId
        validation == validateSchema(config.schema)
    IN IF BothZero(comparison)
       THEN IF validation.threw
            THEN Result(id, comparison, "invalid", "validate-error", FALSE, FALSE, 1, 0)
            ELSE IF ReportsErrors(validation)
            THEN Result(id, comparison, "invalid", "fix-errors", FALSE, TRUE, 1, 0)
            ELSE Result(id, comparison, "ahead", "bump-version", FALSE, FALSE, 1, 0)
       ELSE Result(id, comparison, "current", "up-to-date", FALSE, FALSE, 0, 0)

analyzeStatusEqual(config, comparison) ==
    LET id == config.projectId
        validation == validateSchema(config.schema)
        content == compareSchema(config.schema)
    IN IF BothZero(comparison)
       THEN IF validation.threw
            THEN Result(id, comparison, "invalid", "validate-error", FALSE, FALSE, 1, 0)
            ELSE IF ReportsErrors(validation)
            THEN Result(id, comparison, "invalid", "fix-errors", FALSE, TRUE, 1, 0)
            ELSE Result(id, comparison, "ahead", "bump-version", FALSE, FALSE, 1, 0)
       ELSE IF content.threw
            THEN Result(id, comparison, "invalid", "compare-error", FALSE, FALSE, 0, 1)
            ELSE IF content.valid
            THEN Result(id, comparison, "current", "up-to-date", FALSE, FALSE, 0, 1)
            ELSE Result(id, comparison, "conflict", "pull-or-bump", FALSE, FALSE, 0, 1)

analyzeStatus(config, remote, comparison) ==
    CASE comparison.status = "behind" -> analyzeStatusBehind(config, comparison)
      [] comparison.status = "ahead" -> analyzeStatusAhead(config, comparison)
      [] comparison.status = "equal" -> analyzeStatusEqual(config, comparison)
      [] OTHER -> Result(config.projectId, comparison, "invalid", "unknown", FALSE, FALSE, 0, 0)

\* --- src/src/commands/push.tsx: analyzePushAction ------------------------
\* analyzePushAhead whose catch block lets the push go on.
analyzePushAhead_CatchAhead(config, comparison) ==
    LET id == config.projectId
        validation == validateSchema(config.schema)
    IN IF ~validation.threw /\ ReportsErrors(validation)
       THEN Result(id, comparison, "invalid", "fix-errors", FALSE, TRUE, 1, 0)
       ELSE Result(id, comparison, "ahead", "push-changes", TRUE, FALSE, 1, 0)

analyzePushAhead(config, comparison) ==
    LET id == config.projectId
        validation == validateSchema(config.schema)
    IN IF validation.threw
       THEN Result(id, comparison, "invalid", "validate-error", FALSE, FALSE, 1, 0)
       ELSE IF ReportsErrors(validation)
       THEN Result(id, comparison, "invalid", "fix-errors", FALSE, TRUE, 1, 0)
       ELSE Result(id, comparison, "ahead", "push-changes", TRUE, FALSE, 1, 0)

\* analyzePushEqual without the special case of version 0.
analyzePushEqual_NoZeroCase(config, comparison) ==
    LET id == config.projectId
        content == compareSchema(config.schema)
    IN IF content.threw
       THEN Result(id, comparison, "current", "assuming-current", FALSE, FALSE, 0, 1)
       ELSE IF content.valid
       THEN Result(id, comparison, "current", "up-to-date", FALSE, FALSE, 0, 1)
       ELSE Result(id, comparison, "invalid", "bump-version", FALSE, FALSE, 0, 1)

analyzePushEqual(config, comparison) ==
    LET id == config.projectId
        validation == validateSchema(config.schema)
        content == compareSchema(config.schema)
    IN IF BothZero(comparison)
       THEN IF validation.threw
            THEN Result(id, comparison, "invalid", "validate-error", FALSE, FALSE, 1, 0)
            ELSE IF ReportsErrors(validation)
            THEN Result(id, comparison, "invalid", "fix-errors", FALSE, TRUE, 1, 0)
            ELSE Result(id, comparison, "invalid", "bump-version", FALSE, FALSE, 1, 0)
       ELSE IF content.threw
            THEN Result(id, comparison, "current", "assuming-current", FALSE, FALSE, 0, 1)
            ELSE IF content.valid
            THEN Result(id, comparison, "current", "up-to-date", FALSE, FALSE, 0, 1)
            ELSE Result(id, comparison, "invalid", "bump-version", FALSE, FALSE, 0, 1)

\* analyzePushBehind asking for confirmation, as the pull flow does at behind.
analyzePushBehind_Confirm(config, comparison) ==
    Result(config.projectId, comparison, "behind", "pull-instead", TRUE, FALSE, 0, 0)

analyzePushBehind(config, comparison) ==
    Result(config.projectId, comparison, "behind", "pull-instead", FALSE, FALSE, 0, 0)

analyzePushAction(config, remote, comparison) ==
    CASE comparison.status = "ahead" -> analyzePushAhead(config, comparison)
      [] comparison.status = "equal" -> analyzePushEqual(config, comparison)
      [] comparison.status = "behind" -> analyzePushBehind(config, comparison)
      [] OTHER -> Result(config.projectId, comparison, "current", "up-to-date", FALSE, FALSE, 0, 0)

\* --- src/unnamed/part_007: analyzePullAction -----------------------------
analyzePullBehind(config, comparison) ==
    Result(config.projectId, comparison, "behind", "pull-latest", TRUE, FALSE, 0, 0)

\* analyzePullEqual with the test of comparisonResult.valid inverted.
analyzePullEqual_Inverted(config, comparison) ==
    LET id == config.projectId
        content == compareSchema(config.schema)
    IN IF BothZero(comparison)
       THEN Result(id, comparison, "current", "up-to-date", FALSE, FALSE, 0, 0)
       ELSE IF content.threw
            THEN Result(id, comparison, "current", "assuming-current", FALSE, FALSE, 0, 1)
            ELSE IF ~content.valid
            THEN Result(id, comparison, "current", "up-to-date", FALSE, FALSE, 0, 1)
            ELSE Result(id, comparison, "conflict", "override-local", TRUE, FALSE, 0, 1)

analyzePullEqual(config, comparison) ==
    LET id == config.projectId
        content == compareSchema(config.schema)
    IN IF BothZero(comparison)
       THEN Result(id, comparison, "current", "up-to-date", FALSE, FALSE, 0, 0)
       ELSE IF content.threw
            THEN Result(id, comparison, "current", "assuming-current", FALSE, FALSE, 0, 1)
            ELSE IF content.valid
            THEN Result(id, comparison, "current", "up-to-date", FALSE, FALSE, 0, 1)
            ELSE Result(id, comparison, "conflict", "override-local", TRUE, FALSE, 0, 1)

\* analyzePullAhead asking for confirmation, as the push flow does at ahead.
analyzePullAhead_Confirm(config, comparison) ==
    Result(config.projectId, comparison, "ahead", "push-instead", TRUE, FALSE, 0, 0)

analyzePullAhead(config, comparison) ==
    Result(config.projectId, comparison, "ahead", "push-instead", FALSE, FALSE, 0, 0)

analyzePullAction(config, remote, comparison) ==
    CASE comparison.status = "behind" -> analyzePullBehind(config, comparison)
      [] comparison.status = "equal" -> analyzePullEqual(config, comparison)
      [] comparison.status = "ahead" -> analyzePullAhead(config, comparison)
      [] OTHER -> Result(config.projectId, comparison, "current", "up-to-date", FALSE, FALSE, 0, 0)

\* The analyzer the running flow calls.
Analyzer(f, config, remote, comparison) ==
    CASE f = "status" -> analyzeStatus(config, remote, comparison)
      [] f = "push" -> analyzePushAction(config, remote, comparison)
      [] OTHER -> analyzePullAction(config, remote, comparison)

\* The result set when readSchemaFromConfig returns null.
NoSchemaResult ==
    [status |-> "no-schema", projectId |-> NoProjectId, localVersion |-> 0,
     remoteVersion |-> 0, hint |-> "run-init", needsConfirmation |-> FALSE,
     validationErrors |-> FALSE, validated |-> 0, compared |-> 0]

\* ------------------------------------------------------------------------
\* Local Schema Accessor and Remote Schema Gateway, as the flows use them
\* ------------------------------------------------------------------------
\* readSchemaFromConfig falling back to an empty default config when no
\* config file exists.
readSchemaFromConfig_Default(file) ==
    IF file = Null
    THEN [threw |-> FALSE,
          value |-> Some([schema |-> EmptySchema("p1"), projectId |-> "p1"])]
    ELSE IF file[1].project_id = NoProjectId THEN [threw |-> TRUE, value |-> Null]
    ELSE [threw |-> FALSE,
          value |-> Some([schema |-> file[1], projectId |-> file[1].project_id])]

\* src/src/lib/schema.ts: readSchemaFromConfig.  null when no config file
\* exists; an error when the schema has no project_id; else the schema.
readSchemaFromConfig(file) ==
    IF file = Null THEN [threw |-> FALSE, value |-> Null]
    ELSE IF file[1].project_id = NoProjectId THEN [threw |-> TRUE, value |-> Null]
    ELSE [threw |-> FALSE,
          value |-> Some([schema |-> file[1], projectId |-> file[1].project_id])]

\* src/src/lib/api.ts: ApiClient.getProjectSchema.  ok = FALSE is a
\* transport error or a non-2xx answer that is raised.
getProjectSchema(store, ok) ==
    IF ok THEN [threw |-> FALSE, value |-> store] ELSE [threw |-> TRUE, value |-> Null]

\* `if (!remoteSchema) remoteSchema = {project_id, version: 0, tables: {}}`
OrEmptySchema(fetched, projectId) ==
    IF fetched = Null THEN EmptySchema(projectId) ELSE fetched[1]

NoCalls ==
    [isOnline |-> 0, getToken |-> 0, read |-> 0, fetch |-> 0, validate |-> 0,
     compare |-> 0, push |-> 0, write |-> 0, analyze |-> 0]

Called(c, what) == [c EXCEPT ![what] = @ + 1]

\* The phase a flow shows once a status is there and no prompt is needed.
Settled(f) == IF f = "status" THEN "rendered" ELSE "no-action"

\* `phase: result.needsConfirmation ? 'confirming' : 'no-action'`
AfterChecking(f, result) ==
    IF result.needsConfirmation THEN "confirming" ELSE Settled(f)

\* The phase of the mutating step.
Acting(f) == IF f = "push" THEN "pushing" ELSE "pulling"

\* ------------------------------------------------------------------------
\* Initial state: the command has been started, the spinner shows
\* ------------------------------------------------------------------------
Init ==
    /\ flow \in Flows
    /\ phase = "checking"
    /\ pc = "isOnline"
    /\ error = None
    /\ statusResult = Null
    /\ selectedOption = "yes"
    /\ localFile \in LocalFiles
    /\ remoteStore \in RemoteStores
    /\ valBehaviour \in ValidateBehaviours
    /\ cmpBehaviour \in CompareBehaviours
    /\ localConfig = Null
    /\ remoteSchema = Null
    /\ checked = Null
    /\ calls = NoCalls
    /\ sent = Null
    /\ opResult = Null
    /\ exitCode = Undefined
    /\ edits = 0

\* A catch block that stores the message and leaves the phase as it is.
Fail_KeepPhase(message) ==
    /\ UNCHANGED phase
    /\ error' = message
    /\ pc' = "idle"

\* setState({phase: 'error', error}) / setState({loading: false, error})
Fail(message) ==
    /\ phase' = "error"
    /\ error' = message
    /\ pc' = "idle"

\* ------------------------------------------------------------------------
\* checkStatus / checkPushStatus / checkPullStatus, one action per await
\* ------------------------------------------------------------------------
\* The offline branch without its `return`: the message is set and the
\* checks go on.
CheckOnline_NoReturn ==
    /\ pc = "isOnline"
    /\ calls' = Called(calls, "isOnline")
    /\ pc' = "getToken"
    /\ \E online \in BOOLEAN :
         IF online
         THEN UNCHANGED <<phase, error>>
         ELSE phase' = "error" /\ error' = "offline"
    /\ UNCHANGED <<flow, statusResult, selectedOption, localFile, remoteStore,
                   valBehaviour, cmpBehaviour, localConfig, remoteSchema, checked,
                   sent, opResult, exitCode, edits>>

\* `if (!(await isOnline()))`
CheckOnline ==
    /\ pc = "isOnline"
    /\ calls' = Called(calls, "isOnline")
    /\ \E online \in BOOLEAN :
         IF online
         THEN pc' = "getToken" /\ UNCHANGED <<phase, error>>
         ELSE Fail("offline")
    /\ UNCHANGED <<flow, statusResult, selectedOption, localFile, remoteStore,
                   valBehaviour, cmpBehaviour, localConfig, remoteSchema, checked,
                   sent, opResult, exitCode, edits>>

\* `const token = await authService.getToken(); if (!token)`
CheckToken ==
    /\ pc = "getToken"
    /\ calls' = Called(calls, "getToken")
    /\ \E token \in {"token", "null", "throw"} :
         CASE token = "token" -> pc' = "readLocal" /\ UNCHANGED <<phase, error>>
           [] token = "null" -> Fail("logged-out")
           [] OTHER -> Fail("thrown: getToken")
    /\ UNCHANGED <<flow, statusResult, selectedOption, localFile, remoteStore,
                   valBehaviour, cmpBehaviour, localConfig, remoteSchema, checked,
                   sent, opResult, exitCode, edits>>

\* `const localConfig = await readSchemaFromConfig(); if (!localConfig)`
ReadLocal ==
    /\ pc = "readLocal"
    /\ calls' = Called(calls, "read")
    /\ LET r == readSchemaFromConfig(localFile)
       IN IF r.threw
          THEN Fail("thrown: read") /\ UNCHANGED <<statusResult, localConfig>>
          ELSE IF r.value = Null
          THEN /\ phase' = Settled(flow)
               /\ statusResult' = Some(NoSchemaResult)
               /\ pc' = "idle"
               /\ UNCHANGED <<error, localConfig>>
          ELSE /\ localConfig' = r.value
               /\ pc' = "fetchRemote"
               /\ UNCHANGED <<phase, error, statusResult>>
    /\ UNCHANGED <<flow, selectedOption, localFile, remoteStore, valBehaviour,
                   cmpBehaviour, remoteSchema, checked, sent, opResult, exitCode,
                   edits>>

\* The fetch failure shown as an up-to-date project, as the other catch
\* blocks of the analyzers do.
FetchFailedResult_Current(config) ==
    [status |-> "current", projectId |-> config.projectId,
     localVersion |-> OrZero(config.schema.version), remoteVersion |-> 0,
     hint |-> "assumed-current", needsConfirmation |-> FALSE,
     validationErrors |-> FALSE, validated |-> 0, compared |-> 0]

\* The result the status flow shows when the remote fetch fails.
FetchFailedResult(config) ==
    [status |-> "invalid", projectId |-> config.projectId,
     localVersion |-> OrZero(config.schema.version), remoteVersion |-> 0,
     hint |-> "fetch-error", needsConfirmation |-> FALSE,
     validationErrors |-> FALSE, validated |-> 0, compared |-> 0]

\* `remoteSchema = await apiClient.getProjectSchema(localConfig.projectId)`
FetchRemote ==
    /\ pc = "fetchRemote"
    /\ calls' = Called(calls, "fetch")
    /\ \E ok \in BOOLEAN :
         LET r == getProjectSchema(remoteStore, ok)
         IN IF r.threw
            THEN IF flow = "status"
                 THEN /\ phase' = "rendered"
                      /\ statusResult' = Some(FetchFailedResult(localConfig[1]))
                      /\ pc' = "idle"
                      /\ UNCHANGED <<error, remoteSchema>>
                 ELSE Fail("Error fetching remote schema: thrown: fetch")
                      /\ UNCHANGED <<statusResult, remoteSchema>>
            ELSE /\ remoteSchema' = Some(OrEmptySchema(r.value, localConfig[1].projectId))
                 /\ pc' = "analyze"
                 /\ UNCHANGED <<phase, error, statusResult>>
    /\ UNCHANGED <<flow, selectedOption, localFile, remoteStore, valBehaviour,
                   cmpBehaviour, localConfig, checked, sent, opResult, exitCode,
                   edits>>

\* `const comparison = compareVersions(...); const result = await analyze...;
\*  setState({phase: result.needsConfirmation ? 'confirming' : 'no-action', ...})`
Analyze ==
    /\ pc = "analyze"
    /\ LET comparison == compareVersions(localConfig[1].schema, remoteSchema[1])
           result == Analyzer(flow, localConfig[1], remoteSchema[1], comparison)
       IN /\ statusResult' = Some(result)
          /\ phase' = AfterChecking(flow, result)
          /\ checked' = Some([config |-> localConfig[1], remote |-> remoteSchema[1],
                              comparison |-> comparison,
                              validation |-> validateSchema(localConfig[1].schema),
                              content |-> compareSchema(localConfig[1].schema)])
          /\ calls' = [calls EXCEPT !.analyze = @ + 1,
                                    !.validate = @ + result.validated,
                                    !.compare = @ + result.compared]
    /\ pc' = "idle"
    /\ UNCHANGED <<flow, error, selectedOption, localFile, remoteStore, valBehaviour,
                   cmpBehaviour, localConfig, remoteSchema, sent, opResult,
                   exitCode, edits>>

\* ------------------------------------------------------------------------
\* useInput: the confirmation prompt of push and pull
\* ------------------------------------------------------------------------
Toggle(option) == IF option = "yes" THEN "no" ELSE "yes"

\* useInput without the test of selectedOption: Enter always confirms.
useInput_EnterConfirms(option, key) ==
    CASE key \in {"up", "down"} -> "toggle"
      [] key = "return" -> "confirm"
      [] key \in {"escape", "q"} -> "decline"
      [] OTHER -> "ignore"

\* What the handler does with a key while the phase is `confirming`.
useInput(option, key) ==
    CASE key \in {"up", "down"} -> "toggle"
      [] key = "return" -> IF option = "yes" THEN "confirm" ELSE "decline"
      [] key \in {"escape", "q"} -> "decline"
      [] OTHER -> "ignore"

\* useInput without `if (state.phase !== 'confirming') return`: a key acts
\* in every phase.
KeyPress_AnyPhase ==
    /\ flow \in {"push", "pull"}
    /\ pc \in {"idle", "exited"}
    /\ statusResult # Null
    /\ \E key \in Keys :
         LET do == useInput(selectedOption, key)
         IN CASE do = "toggle" ->
                   /\ selectedOption' = Toggle(selectedOption)
                   /\ UNCHANGED <<phase, pc>>
              [] do = "confirm" ->
                   /\ phase' = Acting(flow)
                   /\ pc' = "reread"
                   /\ UNCHANGED selectedOption
              [] do = "decline" ->
                   /\ phase' = "no-action"
                   /\ UNCHANGED <<pc, selectedOption>>
              [] OTHER -> UNCHANGED <<phase, pc, selectedOption>>
    /\ UNCHANGED <<flow, error, statusResult, localFile, remoteStore,
                   valBehaviour, cmpBehaviour, localConfig, remoteSchema, checked,
                   calls, sent, opResult, exitCode, edits>>

\* One key delivered to the useInput handler.  On Enter with `yes` the
\* handler calls handlePush / handlePull, which sets the phase and goes on
\* to its first await.
KeyPress ==
    /\ flow \in {"push", "pull"}
    /\ pc # "exited"
    /\ \E key \in Keys :
         LET do == IF phase = "confirming" THEN useInput(selectedOption, key) ELSE "ignore"
         IN CASE do = "toggle" ->
                   /\ selectedOption' = Toggle(selectedOption)
                   /\ UNCHANGED <<phase, pc>>
              [] do = "confirm" ->
                   /\ phase' = Acting(flow)
                   /\ pc' = "reread"
                   /\ UNCHANGED selectedOption
              [] do = "decline" ->
                   /\ phase' = "no-action"
                   /\ UNCHANGED <<pc, selectedOption>>
              [] OTHER -> UNCHANGED <<phase, pc, selectedOption>>
    /\ UNCHANGED <<flow, error, statusResult, localFile, remoteStore, valBehaviour,
                   cmpBehaviour, localConfig, remoteSchema, checked, calls, sent,
                   opResult, exitCode, edits>>

\* ------------------------------------------------------------------------
\* handlePush / handlePull, one action per await
\* ------------------------------------------------------------------------
\* handlePush / handlePull without the second read: the handler goes on
\* with the config that checking read.
HandlerRead_NoReread ==
    /\ pc = "reread"
    /\ pc' = IF flow = "push" THEN "push" ELSE "refetch"
    /\ UNCHANGED <<flow, phase, error, statusResult, selectedOption, localFile,
                   remoteStore, valBehaviour, cmpBehaviour, localConfig,
                   remoteSchema, checked, calls, sent, opResult, exitCode, edits>>

\* `const localConfig = await readSchemaFromConfig();
\*  if (!localConfig) throw new Error('Local schema not found')`
HandlerRead ==
    /\ pc = "reread"
    /\ calls' = Called(calls, "read")
    /\ LET r == readSchemaFromConfig(localFile)
       IN IF r.threw
          THEN Fail("thrown: read") /\ UNCHANGED localConfig
          ELSE IF r.value = Null
          THEN Fail("thrown: Local schema not found") /\ UNCHANGED localConfig
          ELSE /\ localConfig' = r.value
               /\ pc' = IF flow = "push" THEN "push" ELSE "refetch"
               /\ UNCHANGED <<phase, error>>
    /\ UNCHANGED <<flow, statusResult, selectedOption, localFile, remoteStore,
                   valBehaviour, cmpBehaviour, remoteSchema, checked, sent,
                   opResult, exitCode, edits>>

\* A push that increments the version as part of uploading.
pushProjectSchema_Bump(store, schema, ok) ==
    IF ok THEN [threw |-> FALSE, store |-> Some([schema EXCEPT !.version = OrZero(@) + 1])]
    ELSE [threw |-> TRUE, store |-> store]

\* src/src/lib/api.ts: ApiClient.pushProjectSchema.  The backend stores the
\* schema it accepts; ok = FALSE is a transport error or a non-2xx answer.
pushProjectSchema(store, schema, ok) ==
    IF ok THEN [threw |-> FALSE, store |-> Some(schema)]
    ELSE [threw |-> TRUE, store |-> store]

\* `await apiClient.pushProjectSchema(localConfig.projectId, localConfig.schema);
\*  setState({phase: 'success', pushResult})`
HandlePush ==
    /\ pc = "push"
    /\ calls' = Called(calls, "push")
    /\ sent' = Some(localConfig[1].schema)
    /\ \E ok \in BOOLEAN :
         LET r == pushProjectSchema(remoteStore, localConfig[1].schema, ok)
         IN /\ remoteStore' = r.store
            /\ IF r.threw
               THEN Fail("thrown: push") /\ UNCHANGED opResult
               ELSE /\ phase' = "success"
                    /\ pc' = "idle"
                    /\ opResult' = Some([projectId |-> localConfig[1].projectId,
                                         oldVersion |-> statusResult[1].remoteVersion,
                                         newVersion |-> OrZero(localConfig[1].schema.version)])
                    /\ UNCHANGED error
    /\ UNCHANGED <<flow, statusResult, selectedOption, localFile, valBehaviour,
                   cmpBehaviour, localConfig, remoteSchema, checked, exitCode, edits>>

\* handlePull without the second fetch: the handler writes the remote
\* schema that checking fetched (or synthesized).
HandlePullFetch_Stale ==
    /\ pc = "refetch"
    /\ pc' = "save"
    /\ UNCHANGED <<flow, phase, error, statusResult, selectedOption, localFile,
                   remoteStore, valBehaviour, cmpBehaviour, localConfig,
                   remoteSchema, checked, calls, sent, opResult, exitCode, edits>>

\* `const remoteSchema = await apiClient.getProjectSchema(localConfig.projectId);
\*  if (!remoteSchema) throw new Error('Remote schema not found')`
HandlePullFetch ==
    /\ pc = "refetch"
    /\ calls' = Called(calls, "fetch")
    /\ \E ok \in BOOLEAN :
         LET r == getProjectSchema(remoteStore, ok)
         IN IF r.threw
            THEN Fail("thrown: fetch") /\ UNCHANGED remoteSchema
            ELSE IF r.value = Null
            THEN Fail("thrown: Remote schema not found") /\ UNCHANGED remoteSchema
            ELSE /\ remoteSchema' = r.value
                 /\ pc' = "save"
                 /\ UNCHANGED <<phase, error>>
    /\ UNCHANGED <<flow, statusResult, selectedOption, localFile, remoteStore,
                   valBehaviour, cmpBehaviour, localConfig, checked, sent, opResult,
                   exitCode, edits>>

\* saveSchemaToConfig that stamps the next version on what it writes.
saveSchemaToConfig_Bump(file, schema, ok) ==
    IF ok THEN [threw |-> FALSE, file |-> Some([schema EXCEPT !.version = OrZero(@) + 1])]
    ELSE [threw |-> TRUE, file |-> file]

\* saveSchemaToConfig that swallows a failed write and returns normally.
saveSchemaToConfig_Swallow(file, schema, ok) ==
    [threw |-> FALSE, file |-> IF ok THEN Some(schema) ELSE file]

\* src/src/lib/schema.ts: saveSchemaToConfig.  ok = FALSE is a write that
\* fails (the file cannot be updated or written); the file then keeps its
\* content.
saveSchemaToConfig(file, schema, ok) ==
    IF ok THEN [threw |-> FALSE, file |-> Some(schema)]
    ELSE [threw |-> TRUE, file |-> file]

\* `const filePath = await saveSchemaToConfig(remoteSchema);
\*  setState({phase: 'success', pullResult})`
HandlePullSave ==
    /\ pc = "save"
    /\ calls' = Called(calls, "write")
    /\ \E ok \in BOOLEAN :
         LET r == saveSchemaToConfig(localFile, remoteSchema[1], ok)
         IN /\ localFile' = r.file
            /\ IF r.threw
               THEN Fail("thrown: write") /\ UNCHANGED opResult
               ELSE /\ phase' = "success"
                    /\ pc' = "idle"
                    /\ opResult' = Some([projectId |-> localConfig[1].projectId,
                                         oldVersion |-> OrZero(localConfig[1].schema.version),
                                         newVersion |-> OrZero(remoteSchema[1].version)])
                    /\ UNCHANGED error
    /\ UNCHANGED <<flow, statusResult, selectedOption, remoteStore, valBehaviour,
                   cmpBehaviour, localConfig, remoteSchema, checked, sent, exitCode,
                   edits>>

\* ------------------------------------------------------------------------
\* Process exit
\* ------------------------------------------------------------------------
\* push / pull: `setTimeout(() => process.exit(1), 0)` in the error phase,
\* `process.exit(0)` in success and no-action.  status: the command ends
\* with `process.exit(0)` whatever was rendered.
ExitCodeOf(f, p) == IF f # "status" /\ p = "error" THEN 1 ELSE 0

Exit ==
    /\ pc = "idle"
    /\ phase \in {"error", "success", "no-action", "rendered"}
    /\ exitCode' = ExitCodeOf(flow, phase)
    /\ pc' = "exited"
    /\ UNCHANGED <<flow, phase, error, statusResult, selectedOption, localFile,
                   remoteStore, valBehaviour, cmpBehaviour, localConfig,
                   remoteSchema, checked, calls, sent, opResult, edits>>

\* ------------------------------------------------------------------------
\* The environment while the confirmation prompt is open
\* ------------------------------------------------------------------------
\* The user (or another tool) edits, replaces or deletes the config file.
EditLocal ==
    /\ phase = "confirming"
    /\ edits < MaxEdits
    /\ edits' = edits + 1
    /\ localFile' \in LocalFiles \ {localFile}
    /\ UNCHANGED <<flow, phase, pc, error, statusResult, selectedOption,
                   remoteStore, valBehaviour, cmpBehaviour, localConfig,
                   remoteSchema, checked, calls, sent, opResult, exitCode>>

\* Somebody else publishes or removes the project's remote schema.
EditRemote ==
    /\ phase = "confirming"
    /\ edits < MaxEdits
    /\ edits' = edits + 1
    /\ remoteStore' \in RemoteStores \ {remoteStore}
    /\ UNCHANGED <<flow, phase, pc, error, statusResult, selectedOption,
                   localFile, valBehaviour, cmpBehaviour, localConfig,
                   remoteSchema, checked, calls, sent, opResult, exitCode>>

Next ==
    \/ CheckOnline
    \/ CheckToken
    \/ ReadLocal
    \/ FetchRemote
    \/ Analyze
    \/ KeyPress
    \/ HandlerRead
    \/ HandlePush
    \/ HandlePullFetch
    \/ HandlePullSave
    \/ Exit
    \/ EditLocal
    \/ EditRemote

Spec == Init /\ [][Next]_vars

\* ========================================================================
\* Properties
\* ========================================================================
\* The analyzer has run and neither the file nor the backend changed since.
JustAnalyzed == checked # Null /\ edits = 0 /\ sent = Null /\ opResult = Null

\* The comparator said `equal` at a version greater than 0.
EqualNonZero == checked # Null /\ checked[1].comparison.status = "equal"
                /\ checked[1].comparison.localVersion > 0

\* The comparator said `equal` with both versions 0.
EqualZero == checked # Null /\ checked[1].comparison.status = "equal"
             /\ checked[1].comparison.localVersion = 0

StatusOf(f) == Analyzer(f, checked[1].config, checked[1].remote, checked[1].comparison).status

\* C1 (as stated): for every analysed pair (local, remote) and every fixed
\* behaviour of the validation and comparison endpoints, the status, push
\* and pull analyzers give the same status.
C1_SameStatusInAllFlows ==
    JustAnalyzed => StatusOf("status") = StatusOf("push") /\ StatusOf("push") = StatusOf("pull")

\* C1 (amended): the three analyzers agree when the comparator says behind,
\* when it says ahead and validation neither fails nor reports errors, and
\* when it says equal at a nonzero version and the comparison endpoint
\* answers valid:true; status and push agree whenever the comparator says
\* ahead; status and pull agree on conflict when the comparison endpoint
\* answers valid:false.
C1_SameStatusWhereFlowsAgree ==
    JustAnalyzed =>
        LET c == checked[1]
            all(st) == StatusOf("status") = st /\ StatusOf("push") = st /\ StatusOf("pull") = st
        IN /\ c.comparison.status = "behind" => all("behind")
           /\ c.comparison.status = "ahead" => StatusOf("status") = StatusOf("push")
           /\ (c.comparison.status = "ahead" /\ valBehaviour \in {"valid", "invalid-no-errors"})
                 => all("ahead")
           /\ (EqualNonZero /\ ~c.content.threw /\ c.content.valid) => all("current")
           /\ (EqualNonZero /\ ~c.content.threw /\ ~c.content.valid)
                 => StatusOf("status") = "conflict" /\ StatusOf("pull") = "conflict"
           /\ statusResult[1].status = StatusOf(flow)

C1_Witness ==
    /\ JustAnalyzed /\ EqualNonZero /\ flow = "pull"
    /\ ~checked[1].content.threw /\ checked[1].content.valid
    /\ statusResult[1].status = "current"

\* C2 (as stated): in every flow, local version 0 and remote version 0 with
\* a schema the validation accepts never gives `current`; the status tells
\* the user to bump the version.
C2_ZeroZeroNeverCurrent ==
    (EqualZero /\ valBehaviour = "valid") =>
        statusResult[1].status # "current" /\ statusResult[1].hint = "bump-version"

\* C2 (amended): in the status and push flows, versions 0 and 0 with a
\* schema the validation accepts never give `current`: the status is `ahead`
\* (status flow) or `invalid` (push flow) with the instruction to bump the
\* version; the pull flow does not validate and reports `current`.
C2_ZeroZeroPerFlow ==
    EqualZero =>
        /\ (flow = "status" /\ valBehaviour = "valid") =>
               statusResult[1].status = "ahead" /\ statusResult[1].hint = "bump-version"
        /\ (flow = "push" /\ valBehaviour = "valid") =>
               statusResult[1].status = "invalid" /\ statusResult[1].hint = "bump-version"
        /\ flow \in {"status", "push"} => statusResult[1].status # "current"
        /\ flow = "pull" => statusResult[1].status = "current" /\ calls.validate = 0

C2_Witness ==
    /\ EqualZero /\ flow = "push" /\ valBehaviour = "valid"
    /\ statusResult[1].hint = "bump-version"

\* C3 (as stated): when the comparator says equal at a version greater
\* than 0, every flow calls the comparison endpoint exactly once; on
\* {valid:false} the status is `conflict`, on {valid:true} it is `current`.
C3_EqualNonZeroConflict ==
    EqualNonZero =>
        /\ calls.compare = 1
        /\ (~checked[1].content.threw /\ ~checked[1].content.valid)
              => statusResult[1].status = "conflict"
        /\ (~checked[1].content.threw /\ checked[1].content.valid)
              => statusResult[1].status = "current"

\* C3 (amended): ... on {valid:false} the status is `conflict` in the status
\* and pull flows and `invalid` in the push flow, never `current`; on
\* {valid:true} it is `current`.
C3_EqualNonZeroPerFlow ==
    EqualNonZero =>
        /\ calls.compare = 1
        /\ (~checked[1].content.threw /\ ~checked[1].content.valid)
              => statusResult[1].status = IF flow = "push" THEN "invalid" ELSE "conflict"
        /\ (~checked[1].content.threw /\ checked[1].content.valid)
              => statusResult[1].status = "current"

C3_Witness ==
    /\ EqualNonZero /\ flow = "status" /\ calls.compare = 1
    /\ ~checked[1].content.threw /\ ~checked[1].content.valid
    /\ statusResult[1].status = "conflict"

\* C4: in the push flow, a comparator status `behind` never leads to the
\* `pushing` phase nor to a call of the push endpoint, whatever keys are
\* pressed; the flow is in `no-action` with the guidance to pull.
C4_PushBehindNeverPushes ==
    (flow = "push" /\ checked # Null /\ checked[1].comparison.status = "behind") =>
        /\ phase = "no-action"
        /\ pc \in {"idle", "exited"}
        /\ calls.push = 0 /\ sent = Null
        /\ statusResult[1].status = "behind"
        /\ statusResult[1].hint = "pull-instead"

C4_Witness ==
    /\ flow = "push" /\ checked # Null /\ checked[1].comparison.status = "behind"
    /\ pc = "exited" /\ phase = "no-action" /\ calls.push = 0

\* C5: in the pull flow a status `behind` or `conflict` leads to
\* `confirming` with nothing written; `confirming` is left for `pulling`
\* only by Enter on `yes` and otherwise for `no-action`; the file is written
\* only in `pulling`; after `no-action` the flow stays there and the file is
\* not written.
C5_PullConfirmsBeforeWrite ==
    [][flow = "pull" =>
         /\ (statusResult = Null /\ statusResult' # Null
             /\ statusResult'[1].status \in {"behind", "conflict"})
               => (phase' = "confirming" /\ calls'.write = 0)
         /\ (phase = "confirming" /\ phase' # "confirming")
               => \/ phase' = "pulling" /\ selectedOption = "yes"
                  \/ phase' = "no-action" /\ calls'.write = 0
         /\ phase' = "pulling" => phase \in {"confirming", "pulling"}
         /\ calls'.write # calls.write => phase = "pulling"
         /\ phase = "no-action"
               => (phase' = "no-action" /\ calls'.write = 0 /\ localFile' = localFile)
      ]_vars

C5_Witness ==
    /\ flow = "pull" /\ statusResult # Null /\ statusResult[1].status = "conflict"
    /\ selectedOption = "no" /\ phase = "no-action" /\ pc = "exited"
    /\ calls.write = 0 /\ localFile = Some(checked[1].config.schema)

\* The validation call was made and failed.
ValidationFailed == checked # Null /\ calls.validate = 1 /\ checked[1].validation.threw

\* The content-comparison call was made and failed.
ComparisonFailed == checked # Null /\ calls.compare = 1 /\ checked[1].content.threw

\* C6 (as stated): when the validation or the content-comparison call
\* fails, the outcome is status `invalid` or the error state, never `current`.
C6_FailureNeverCurrent ==
    (ValidationFailed \/ ComparisonFailed) =>
        /\ statusResult[1].status = "invalid" \/ phase = "error"
        /\ statusResult[1].status # "current"

\* C6 (amended): a failed validation call gives status `invalid`; a failed
\* content-comparison call gives `invalid` in the status flow and `current`
\* (marked as assumed) in the push and pull flows; neither moves the flow
\* to the error state.
C6_FailurePerFlow ==
    /\ ValidationFailed =>
          statusResult[1].status = "invalid" /\ phase = Settled(flow)
    /\ (ComparisonFailed /\ flow = "status") =>
          statusResult[1].status = "invalid" /\ phase = "rendered"
    /\ (ComparisonFailed /\ flow \in {"push", "pull"}) =>
          /\ statusResult[1].status = "current"
          /\ statusResult[1].hint = "assuming-current"
          /\ phase = "no-action"

C6_Witness ==
    /\ ComparisonFailed /\ flow = "push"
    /\ statusResult[1].status = "current" /\ phase = "no-action"

\* C7: the push flow classifies as `invalid` and never calls the push
\* endpoint when (a) the comparator says ahead and validation answers
\* valid=false, with or without an errors list, (b) the versions are equal
\* and nonzero and the comparison answers valid=false, (c) both versions
\* are 0, whatever the validation answers.
C7_PushRefuses ==
    (flow = "push" /\ checked # Null) =>
        LET c == checked[1]
            refused == statusResult[1].status = "invalid" /\ calls.push = 0
        IN /\ (c.comparison.status = "ahead" /\ ~c.validation.threw /\ ~c.validation.valid)
                 => refused
           /\ (EqualNonZero /\ ~c.content.threw /\ ~c.content.valid) => refused
           /\ EqualZero => refused

\* C8: when no config file exists the local read resolves the flow to
\* `no-schema`, and a run with that status has called none of the remote
\* fetch, validation or content-comparison endpoints.
C8_NoSchemaShortCircuit ==
    [][/\ (pc = "readLocal" /\ localFile = Null)
            => (statusResult' = Some(NoSchemaResult) /\ phase' = Settled(flow))
       /\ (statusResult' # Null /\ statusResult'[1].status = "no-schema")
            => (calls'.fetch = 0 /\ calls'.validate = 0 /\ calls'.compare = 0
                /\ calls'.push = 0 /\ calls'.write = 0)
      ]_vars

C8_Witness ==
    /\ statusResult = Some(NoSchemaResult) /\ localFile = Null /\ pc = "exited"
    /\ calls.read = 1 /\ calls.fetch = 0 /\ calls.validate = 0 /\ calls.compare = 0

\* C9: in the push flow the phase that follows `checking` is `confirming`
\* iff the status is `ahead`, every other status leads to `no-action`, and
\* `ahead` is produced only when the local version is greater than the
\* remote version and validation did not report the schema invalid.
C9_ConfirmIffValidAhead ==
    [][(flow = "push" /\ statusResult = Null /\ statusResult' # Null) =>
         LET r == statusResult'[1]
         IN /\ (phase' = "confirming") <=> (r.status = "ahead")
            /\ r.status # "ahead" => phase' = "no-action"
            /\ r.status = "ahead" =>
                  /\ r.localVersion > r.remoteVersion
                  /\ ~checked'[1].validation.threw
                  /\ checked'[1].validation.valid
      ]_vars

\* C10: in the pull flow a status `ahead`, `current` or `no-schema` puts
\* the flow in `no-action`; it never enters `confirming` or `pulling` and
\* never writes the config file.
C10_PullNoAction ==
    (flow = "pull" /\ statusResult # Null
     /\ statusResult[1].status \in {"ahead", "current", "no-schema"}) =>
        /\ phase = "no-action"
        /\ pc \in {"idle", "exited"}
        /\ calls.write = 0
        /\ opResult = Null

C10_Witness ==
    /\ flow = "pull" /\ statusResult # Null /\ statusResult[1].status = "ahead"
    /\ statusResult[1].hint = "push-instead"
    /\ phase = "no-action" /\ pc = "exited" /\ calls.write = 0

\* The file or the backend was changed while the prompt was open.
FileChangedSinceCheck == checked # Null /\ localFile # Some(checked[1].config.schema)

\* C11: what the push flow hands to the push endpoint is the complete schema
\* (project_id, version, tables) that the config file holds after the user
\* confirmed, also when the file was changed while the prompt was open; it
\* is not the schema that checking read.
C11_PushSendsRereadSchema ==
    (flow = "push" /\ sent # Null) =>
        /\ sent[1] \in Schema
        /\ sent = localFile
        /\ localConfig[1].projectId = sent[1].project_id

C11_Witness ==
    /\ flow = "push" /\ sent # Null /\ edits > 0
    /\ sent # Some(checked[1].config.schema)
    /\ phase = "success"

C13_PushNoWritePullWriteFails ==
    [][/\ flow = "push" => (calls'.write = 0 /\ (edits' = edits => localFile' = localFile))
       /\ phase = "error" => phase' = "error"
       /\ error' = "thrown: write" => (flow = "pull" /\ phase' = "error" /\ opResult' = Null)
       /\ (flow = "pull" /\ phase # "success" /\ phase' = "success")
             => (calls'.write = 1 /\ localFile' = Some(remoteSchema[1]))]_vars

C13_Witness ==
    /\ flow = "pull" /\ error = "thrown: write" /\ phase = "error"
    /\ calls.write = 1 /\ opResult = Null /\ pc = "exited"

\* A push that the backend refused, with the file untouched.
C13_WitnessPush ==
    /\ flow = "push" /\ error = "thrown: push" /\ phase = "error"
    /\ localFile = sent /\ calls.write = 0

\* What a step of the push flow does at every stage but the analysis: it
\* either goes on, or ends in the `error` phase with the message of that
\* stage (the fixed offline and logged-out texts, else the thrown error's
\* text, prefixed for the remote fetch).
PushStageOutcome ==
    /\ pc = "isOnline" => (pc' = "getToken" \/ (phase' = "error" /\ error' = "offline"))
    /\ pc = "getToken" => \/ pc' = "readLocal"
                          \/ phase' = "error" /\ error' \in {"logged-out", "thrown: getToken"}
    /\ pc = "readLocal" => \/ pc' = "fetchRemote"
                           \/ phase' = "no-action" /\ statusResult'[1].status = "no-schema"
                           \/ phase' = "error" /\ error' = "thrown: read"
    /\ pc = "fetchRemote" => \/ pc' = "analyze"
                             \/ phase' = "error" /\ error' = "Error fetching remote schema: thrown: fetch"
    /\ pc = "reread" => \/ pc' = "push"
                        \/ phase' = "error" /\ error' \in {"thrown: read", "thrown: Local schema not found"}
    /\ pc = "push" => \/ phase' = "success"
                      \/ phase' = "error" /\ error' = "thrown: push"

\* C14 (as stated): in the push flow an exception at any stage, validation
\* and content comparison included, moves the flow to the `error` phase with
\* the thrown error's text as message.
C14_AnyExceptionIsError ==
    [][(flow = "push" /\ pc' # pc) =>
          /\ PushStageOutcome
          /\ (pc = "analyze" /\ (ValidationFailed' \/ ComparisonFailed'))
                => (phase' = "error" /\ error' # None)]_vars

\* C14 (amended): in the push flow an exception raised by the token lookup,
\* the local read (during checking or after confirmation), the remote fetch
\* or the push moves the flow to the `error` phase with the thrown error's
\* text as message (prefixed "Error fetching remote schema:" for the fetch),
\* and a failed connectivity check gives the `error` phase with the fixed
\* offline message.  An exception raised by the validation or by the content
\* comparison is caught inside the analyzer: the flow never enters `error`
\* from the analysis, a failed validation gives status `invalid` and a
\* failed comparison gives status `current`, both without a prompt.
C14_ExceptionsByStage ==
    [][(flow = "push" /\ pc' # pc) =>
          /\ PushStageOutcome
          /\ pc = "analyze" =>
                /\ phase' \in {"confirming", "no-action"} /\ error' = None
                /\ ValidationFailed' => (statusResult'[1].status = "invalid" /\ phase' = "no-action")
                /\ ComparisonFailed' => (statusResult'[1].status = "current" /\ phase' = "no-action")]_vars

C14_Witness ==
    /\ flow = "push" /\ ValidationFailed /\ phase = "no-action"
    /\ statusResult[1].status = "invalid" /\ error = None

\* The other kind of outcome: a push the backend refused.
C14_WitnessError ==
    flow = "push" /\ phase = "error" /\ error = "thrown: push" /\ calls.push = 1

\* The remote fetch of the checking phase was made and failed.
FetchFailed == calls.fetch >= 1 /\ remoteSchema = Null

\* The run ended in an error: the error state, or a failed remote call.
ErrorOutcome == phase = "error" \/ FetchFailed

\* C15: each of status, push and pull exits with code 0 on success or
\* no-action and with code 1 on error (offline, not logged in, local read
\* failure, remote-call failure).
C15_ExitCodes ==
    pc = "exited" => exitCode = (IF ErrorOutcome THEN 1 ELSE 0)

\* C16 (as stated): in each flow a failed remote fetch during checking ends
\* the run in the error outcome, with exit code 1 and the analyzer not run.
C16_FetchFailureIsError ==
    FetchFailed =>
        /\ phase = "error" /\ error = "Error fetching remote schema: thrown: fetch"
        /\ calls.analyze = 0 /\ checked = Null
        /\ pc = "exited" => exitCode = 1

\* C16 (amended): a failed remote fetch during checking never runs the
\* analyzer nor the validation and comparison endpoints.  In the push and
\* pull flows the run ends in the `error` phase with the failure text and
\* exit code 1; in the status flow the failure text is rendered as a
\* status result `invalid` (remote version 0), not as the error outcome.
C16_FetchFailurePerFlow ==
    FetchFailed =>
        /\ calls.analyze = 0 /\ calls.validate = 0 /\ calls.compare = 0 /\ checked = Null
        /\ flow \in {"push", "pull"} =>
              /\ phase = "error" /\ error = "Error fetching remote schema: thrown: fetch"
              /\ pc = "exited" => exitCode = 1
        /\ flow = "status" =>
              /\ phase = "rendered" /\ error = None
              /\ statusResult[1].status = "invalid" /\ statusResult[1].hint = "fetch-error"
              /\ statusResult[1].remoteVersion = 0

C16_Witness ==
    /\ FetchFailed /\ flow = "status" /\ pc = "exited"
    /\ statusResult[1].status = "invalid"

\* The same failure in a mutating flow.
C16_WitnessPull ==
    FetchFailed /\ flow = "pull" /\ pc = "exited" /\ exitCode = 1

\* No schema endpoint (fetch, validate, compare, push) has been called.
NoSchemaEndpointCalled ==
    calls.fetch = 0 /\ calls.validate = 0 /\ calls.compare = 0 /\ calls.push = 0

\* C17: every flow checks connectivity, then the token, then reads the
\* local file, then fetches the remote schema.  An offline run ends in the
\* error outcome with the fixed offline message without looking up the
\* token, reading the file or calling a schema endpoint; a run without a
\* token ends with the fixed logged-out message without reading the file or
\* calling a schema endpoint.
C17_GatingOrder ==
    /\ calls.getToken > 0 => calls.isOnline > 0
    /\ calls.read > 0 => calls.getToken > 0
    /\ calls.fetch > 0 => calls.read > 0
    /\ calls.analyze > 0 => calls.fetch > 0
    /\ error = "offline" =>
          /\ phase = "error" /\ calls.isOnline = 1
          /\ calls.getToken = 0 /\ calls.read = 0 /\ calls.write = 0
          /\ NoSchemaEndpointCalled
    /\ error = "logged-out" =>
          /\ phase = "error" /\ calls.getToken = 1
          /\ calls.read = 0 /\ calls.write = 0
          /\ NoSchemaEndpointCalled

C17_Witness ==
    /\ error = "logged-out" /\ phase = "error" /\ pc = "exited"
    /\ calls.isOnline = 1 /\ calls.getToken = 1 /\ calls.read = 0

\* The offline run.
C17_WitnessOffline ==
    error = "offline" /\ pc = "exited" /\ calls.isOnline = 1 /\ calls.getToken = 0

\* ------------------------------------------------------------------------
\* The status command alone
\* ------------------------------------------------------------------------
\* `basic status`: StatusApp mounts, its effect runs checkStatus once.  The
\* component has no useInput handler and no handler calls, so only the
\* checking steps and the exit apply.  Every step is the continuation of an
\* awaited call: the event loop runs it once the call settles, which is
\* the fairness assumed.
StatusInit == Init /\ flow = "status"

StatusNext ==
    \/ CheckOnline
    \/ CheckToken
    \/ ReadLocal
    \/ FetchRemote
    \/ Analyze
    \/ Exit

StatusSpec == StatusInit /\ [][StatusNext]_vars /\ WF_vars(StatusNext)

\* The status flow shows its outcome: a status result or an error.
StatusRendered ==
    \/ phase = "rendered" /\ statusResult # Null /\ error = None
    \/ phase = "error" /\ error # None

\* C18: the status flow runs the analyzer at most once, never calls the
\* push endpoint, never writes the local file (which keeps its content, as
\* does the backend), has no confirmation step, and always reaches a final
\* rendered outcome, a status or an error.
C18_StatusReadOnly ==
    /\ [](/\ calls.analyze <= 1 /\ calls.push = 0 /\ calls.write = 0
          /\ sent = Null /\ opResult = Null
          /\ phase \in {"checking", "rendered", "error"}
          /\ statusResult # Null => ~statusResult[1].needsConfirmation)
    /\ [][localFile' = localFile /\ remoteStore' = remoteStore]_vars
    /\ <>[]StatusRendered

C18_Witness ==
    /\ flow = "status" /\ phase = "rendered" /\ calls.analyze = 1
    /\ statusResult[1].status = "ahead" /\ pc = "exited"

\* ------------------------------------------------------------------------
\* compareVersions on its own
\* ------------------------------------------------------------------------
MaxCompare == 3

\* Schemas with a version in 0..MaxCompare, or with no version.
CompareInputs ==
    [project_id : ProjectIds, version : (0..MaxCompare) \cup {Undefined}, tables : Tables]

\* Any local and any remote schema, about to be compared.
CompareInit ==
    /\ flow = "status"
    /\ phase = "checking"
    /\ pc = "analyze"
    /\ error = None
    /\ statusResult = Null
    /\ selectedOption = "yes"
    /\ localFile = Null
    /\ remoteStore = Null
    /\ valBehaviour = "valid"
    /\ cmpBehaviour = "truthful"
    /\ localConfig \in {Some([schema |-> s, projectId |-> s.project_id]) : s \in CompareInputs}
    /\ remoteSchema \in {Some(s) : s \in CompareInputs}
    /\ checked = Null
    /\ calls = NoCalls
    /\ sent = Null
    /\ opResult = Null
    /\ exitCode = Undefined
    /\ edits = 0

\* `const comparison = compareVersions(localConfig.schema, remoteSchema)`
CompareStep ==
    /\ pc = "analyze"
    /\ checked' = Some([config |-> localConfig[1], remote |-> remoteSchema[1],
                        comparison |-> compareVersions(localConfig[1].schema, remoteSchema[1])])
    /\ pc' = "idle"
    /\ UNCHANGED <<flow, phase, error, statusResult, selectedOption, localFile,
                   remoteStore, valBehaviour, cmpBehaviour, localConfig,
                   remoteSchema, calls, sent, opResult, exitCode, edits>>

CompareSpec == CompareInit /\ [][CompareStep]_vars

\* The version of a schema, 0 when it has none.
VersionOrZero(schema) == IF schema.version = Undefined THEN 0 ELSE schema.version

\* C19: for all versions l, r >= 0 (a missing version counting as 0)
\* compareVersions returns exactly one of ahead (l > r), behind (l < r) and
\* equal (l = r), with localVersion = l and remoteVersion = r; it never
\* returns `current`.
C19_CompareVersions ==
    checked # Null =>
        LET c == checked[1].comparison
            l == VersionOrZero(checked[1].config.schema)
            r == VersionOrZero(checked[1].remote)
        IN /\ c.status \in {"ahead", "behind", "equal"}
           /\ c.status # "current"
           /\ c.status = "ahead" <=> l > r
           /\ c.status = "behind" <=> l < r
           /\ c.status = "equal" <=> l = r
           /\ c.localVersion = l
           /\ c.remoteVersion = r

C19_Witness ==
    /\ checked # Null /\ calls = NoCalls
    /\ checked[1].config.schema.version = Undefined
    /\ checked[1].remote.version = MaxCompare
    /\ checked[1].comparison.status = "behind"
    /\ checked[1].comparison.localVersion = 0

\* ========================================================================
\* The local schema accessor in detail (src/src/lib/schema.ts)
\* ========================================================================
\* A config file is a sequence of top-level statements.  A statement has a
\* head (the text up to the value), a body (an object literal, or Null for
\* the identifier `schema`) and says whether a `;` follows it directly.  A
\* JSON file is one statement with head "json".
\*
\* What the tables of a schema contain, as far as the accessor can tell
\* them apart: nothing special, a string with a `;` in it, a string with
\* `$1` in it, or a negative number.
TableValues == {"plain", "semicolon", "dollar", "negative"}

\* A string whose `$1` was replaced by String.prototype.replace.
Mangled == "mangled"

\* The schemas handed to saveSchemaToConfig: what GET /project/:id/schema
\* can answer.
ConfigSchemas == [project_id : ProjectIds, version : Versions \cup {Undefined}, tables : TableValues]

\* Object literals as text: "js" as a person types them, "json" as
\* JSON.stringify(value, null, 2) prints them.  A version of Undefined is a
\* literal without a `version` key.
Literal(value, style) == [project_id |-> value.project_id, version |-> value.version, tables |-> value.tables, style |-> style]

\* `JSON.stringify(newSchema, null, 2)`: keys quoted, absent values dropped.
JSONstringify(schema) == Literal(schema, "json")

\* JSON.parse of a literal: the value, whatever the style.
JSONparse(lit) == [project_id |-> lit.project_id, version |-> lit.version, tables |-> lit.tables]

\* convertAstToObject: object, array, string, number, boolean and null
\* nodes are converted; `-1` is a UnaryExpression, which is not.
convertAstToObject(lit) ==
    IF lit.tables = "negative" THEN [threw |-> TRUE, value |-> Null]
    ELSE [threw |-> FALSE, value |-> Some(JSONparse(lit))]

Decl(head, lit, semi) == [head |-> head, body |-> Some(lit), semi |-> semi]

\* `export default schema`
DefaultExport(semi) == [head |-> "export default", body |-> Null, semi |-> semi]

\* Another exported object of the file, not a schema.
OtherLiteral == [project_id |-> NoProjectId, version |-> Undefined, tables |-> "plain", style |-> "js"]

\* The forms of config file of the parser's tests, with and without the
\* `;` after the literal, and with further code after it.
ConstDefault(lit, semi) == <<Decl("const schema =", lit, semi), DefaultExport(TRUE)>>

LetDefault(lit, semi) == <<Decl("let schema =", lit, semi), DefaultExport(TRUE)>>

ExportConst(lit, semi) == <<Decl("export const schema =", lit, semi)>>

ExportConstThenOther(lit, semi) == <<Decl("export const schema =", lit, semi), Decl("export const other =", OtherLiteral, TRUE)>>

InlineDefault(lit, semi) == <<Decl("export default", lit, semi)>>

JsonFile(lit) == <<Decl("json", lit, FALSE)>>

\* generateConfigContent(schema): the file written when none exists.
generateConfigContent(schema) == ConstDefault(JSONstringify(schema), TRUE)

\* --- extractSchemaFromCode ------------------------------------------------
\* Statements `export const schema = <init>` (the last one wins).
ExportedSchemaDecls(content) == {i \in DOMAIN content : content[i].head = "export const schema ="}

\* Top-level variable declarations named schema that are not exported.
SchemaVarDecls(content) == {i \in DOMAIN content : content[i].head \in {"const schema =", "let schema ="}}

DefaultExports(content) == {i \in DOMAIN content : content[i].head = "export default"}

Max(S) == CHOOSE x \in S : \A y \in S : y <= x

Min(S) == CHOOSE x \in S : \A y \in S : x <= y

\* The index of the statement whose value is the schema node, 0 if none.
SchemaNode(content) ==
    IF ExportedSchemaDecls(content) # {} THEN Max(ExportedSchemaDecls(content))
    ELSE IF DefaultExports(content) = {} THEN 0
    ELSE LET d == Max(DefaultExports(content))
         IN IF content[d].body # Null THEN d
            ELSE IF SchemaVarDecls(content) # {} THEN Min(SchemaVarDecls(content))
            ELSE 0

\* extractSchemaFromCode(content): the schema, or an error when there is no
\* schema export, a node cannot be converted, or project_id, version or
\* tables are missing.
extractSchemaFromCode(content) ==
    LET n == SchemaNode(content)
    IN IF n = 0 THEN [threw |-> TRUE, value |-> Null]
       ELSE LET conv == convertAstToObject(content[n].body[1])
            IN IF conv.threw THEN conv
               ELSE IF conv.value[1].project_id = NoProjectId THEN [threw |-> TRUE, value |-> Null]
               ELSE IF conv.value[1].version = Undefined THEN [threw |-> TRUE, value |-> Null]
               ELSE conv

\* --- readSchemaFromConfig over a directory ----------------------------------
\* The parse of one file: JSON.parse for .json, extractSchemaFromCode else.
ParseFile(name, content) ==
    IF name = "json" THEN [threw |-> FALSE, value |-> Some(JSONparse(content[1].body[1]))]
    ELSE extractSchemaFromCode(content)

\* The first of basic.config.ts, .js, .json that exists, "" if none.
FirstFile(dir) ==
    IF dir.ts # Null THEN "ts" ELSE IF dir.js # Null THEN "js" ELSE IF dir.json # Null THEN "json" ELSE ""

\* readSchemaFromConfig(targetDir): null without a config file, an error
\* when the first file that exists cannot be parsed or has no project_id,
\* else {schema, projectId, filePath}.
readSchemaFromDir(dir) ==
    LET name == FirstFile(dir)
    IN IF name = "" THEN [threw |-> FALSE, value |-> Null]
       ELSE LET parsed == ParseFile(name, dir[name][1])
            IN IF parsed.threw THEN [threw |-> TRUE, value |-> Null]
               ELSE IF parsed.value[1].project_id = NoProjectId THEN [threw |-> TRUE, value |-> Null]
               ELSE [threw |-> FALSE, value |-> Some([schema |-> parsed.value[1], projectId |-> parsed.value[1].project_id, filePath |-> name])]

\* --- updateSchemaInCode ---------------------------------------------------
\* The heads in which a pattern finds its first group:
\* 1 /(const\s+schema\s*=\s*)/, 2 /(export\s+const\s+schema\s*=\s*)/,
\* 3 /(schema\s*=\s*)/.
PatternHeads(p) ==
    CASE p = 1 -> {"const schema =", "export const schema ="}
      [] p = 2 -> {"export const schema ="}
      [] OTHER -> {"const schema =", "export const schema =", "let schema ="}

\* The literal has a `;` inside.
HasSemicolon(lit) == lit.tables = "semicolon"

\* The statements from i on that hold the first `;` after the `{` of
\* statement i.
SemicolonAt(content, i) == {k \in i..Len(content) : content[k].semi \/ (content[k].body # Null /\ HasSemicolon(content[k].body[1]))}

\* /({[^;]+})(;)/ from the literal of statement i: [^;]+ stops at the first
\* `;`, which must follow a `}` directly.  The statement where the match
\* ends, 0 when there is no match at i.
MatchEnd(content, i) ==
    IF content[i].body = Null \/ SemicolonAt(content, i) = {} THEN 0
    ELSE LET j == Min(SemicolonAt(content, i))
         IN IF content[j].body # Null /\ ~HasSemicolon(content[j].body[1]) /\ content[j].semi THEN j ELSE 0

Matches(content, p, i) == content[i].head \in PatternHeads(p) /\ MatchEnd(content, i) # 0

\* `pattern.test(content)`
PatternTest(content, p) == \E i \in DOMAIN content : Matches(content, p, i)

\* The replacement string `$1${schemaStr}$3`: a `$1` inside schemaStr is a
\* group reference too.
Replacement(schemaStr) == [schemaStr EXCEPT !.tables = IF @ = "dollar" THEN Mangled ELSE @]

RECURSIVE Replace(_, _, _, _)
\* `content.replace(pattern, ...)` with the g flag, from statement i on:
\* every match is replaced, from its `{` to its `}`.
Replace(content, p, repl, i) ==
    IF i > Len(content) THEN <<>>
    ELSE IF Matches(content, p, i)
    THEN <<[content[i] EXCEPT !.body = Some(repl), !.semi = TRUE]>> \o Replace(content, p, repl, MatchEnd(content, i) + 1)
    ELSE <<content[i]>> \o Replace(content, p, repl, i + 1)

\* The first pattern that matches, 0 if none does.
FirstPattern(content) ==
    IF PatternTest(content, 1) THEN 1 ELSE IF PatternTest(content, 2) THEN 2 ELSE IF PatternTest(content, 3) THEN 3 ELSE 0

\* updateSchemaInCode(content, newSchema): the content with the schema
\* replaced, or `Could not update schema in config file`.
updateSchemaInCode(content, newSchema) ==
    LET p == FirstPattern(content)
    IN IF p = 0 THEN [threw |-> TRUE, content |-> content]
       ELSE [threw |-> FALSE, content |-> Replace(content, p, Replacement(JSONstringify(newSchema)), 1)]

\* saveSchemaToConfig(schema, targetDir): update the file that read finds,
\* or create basic.config.ts.
saveSchemaToDir(dir, schema) ==
    LET existing == readSchemaFromDir(dir)
    IN IF existing.threw THEN [threw |-> TRUE, dir |-> dir]
       ELSE IF existing.value = Null THEN [threw |-> FALSE, dir |-> [dir EXCEPT !.ts = Some(generateConfigContent(schema))]]
       ELSE LET name == existing.value[1].filePath
                updated == updateSchemaInCode(dir[name][1], schema)
            IN IF updated.threw THEN [threw |-> TRUE, dir |-> dir]
               ELSE [threw |-> FALSE, dir |-> [dir EXCEPT ![name] = Some(updated.content)]]

\* --- Directories and the write-then-read run --------------------------------
\* Literals a person may have typed into a config file.
TypedLiterals == {Literal(v, "js") : v \in [project_id : ProjectIds \cup {NoProjectId}, version : Versions \cup {Undefined}, tables : {"plain", "semicolon"}]}

CodeContents ==
    UNION {{ConstDefault(lit, semi), LetDefault(lit, semi), ExportConst(lit, semi), ExportConstThenOther(lit, semi), InlineDefault(lit, semi)} : lit \in TypedLiterals, semi \in BOOLEAN}

JsonContents == {JsonFile(lit) : lit \in TypedLiterals}

NoFiles == [ts |-> Null, js |-> Null, json |-> Null]

\* A small choice of files for directories that hold several.
PlainLiteral(version) == Literal([project_id |-> "p1", version |-> version, tables |-> "plain"], "js")

FewCodeContents == {ConstDefault(PlainLiteral(0), TRUE), InlineDefault(PlainLiteral(MaxVersion), TRUE)}

FewJsonContents == {JsonFile(PlainLiteral(0)), JsonFile(PlainLiteral(Undefined))}

\* A directory with at most one config file of any content, or with several
\* files of the small choice.
Directories ==
    {[NoFiles EXCEPT !.ts = Some(c)] : c \in CodeContents}
    \cup {[NoFiles EXCEPT !.js = Some(c)] : c \in CodeContents}
    \cup {[NoFiles EXCEPT !.json = Some(c)] : c \in JsonContents}
    \cup [ts : Opt(FewCodeContents), js : Opt(FewCodeContents), json : Opt(FewJsonContents)]

\* A directory and a schema to save into it.
AccessorInit ==
    /\ flow = "pull"
    /\ phase = "pulling"
    /\ pc = "save"
    /\ error = None
    /\ statusResult = Null
    /\ selectedOption = "yes"
    /\ localFile \in Directories
    /\ remoteStore = Null
    /\ valBehaviour = "valid"
    /\ cmpBehaviour = "truthful"
    /\ localConfig = Null
    /\ remoteSchema \in {Some(s) : s \in ConfigSchemas}
    /\ checked = Null
    /\ calls = NoCalls
    /\ sent = Null
    /\ opResult = Null
    /\ exitCode = Undefined
    /\ edits = 0

\* `await saveSchemaToConfig(remoteSchema)`; `checked` keeps the directory
\* as it was and what a read of it gave.
AccessorSave ==
    /\ pc = "save"
    /\ checked' = Some([before |-> localFile, read |-> readSchemaFromDir(localFile)])
    /\ calls' = Called(calls, "write")
    /\ LET r == saveSchemaToDir(localFile, remoteSchema[1])
       IN /\ localFile' = r.dir
          /\ IF r.threw
             THEN error' = "thrown: write" /\ pc' = "done"
             ELSE pc' = "readback" /\ UNCHANGED error
    /\ UNCHANGED <<flow, phase, statusResult, selectedOption, remoteStore,
                   valBehaviour, cmpBehaviour, localConfig, remoteSchema, sent,
                   opResult, exitCode, edits>>

\* `await readSchemaFromConfig()` after the write.
AccessorReadBack ==
    /\ pc = "readback"
    /\ calls' = Called(calls, "read")
    /\ LET r == readSchemaFromDir(localFile)
       IN IF r.threw
          THEN error' = "thrown: read" /\ UNCHANGED localConfig
          ELSE localConfig' = r.value /\ UNCHANGED error
    /\ pc' = "done"
    /\ UNCHANGED <<flow, phase, statusResult, selectedOption, localFile,
                   remoteStore, valBehaviour, cmpBehaviour, remoteSchema, checked,
                   sent, opResult, exitCode, edits>>

AccessorNext ==
    \/ AccessorSave
    \/ AccessorReadBack

AccessorSpec == AccessorInit /\ [][AccessorNext]_vars

\* The statement that holds the schema of a file: the only one of a JSON
\* file, the schema node of a code file.
SchemaRegion(name, content) == IF name = "json" THEN 1 ELSE SchemaNode(content)

\* A file without its schema region.
OutsideOf(name, content) ==
    [i \in DOMAIN content |-> IF i = SchemaRegion(name, content) THEN [content[i] EXCEPT !.body = Null] ELSE content[i]]

\* A directory without the schema region of the file that read uses.
Outside(dir) ==
    LET name == FirstFile(dir)
    IN IF name = "" THEN dir ELSE [dir EXCEPT ![name] = Some(OutsideOf(name, dir[name][1]))]

\* The run is over and read had accepted the directory's config file.
RoundTripDone == pc = "done" /\ checked # Null /\ ~checked[1].read.threw /\ checked[1].read.value # Null

\* C20: for every config file that read accepts and every schema S (with
\* project_id, a version number and tables), write(S) followed by read
\* returns a schema equal to S, and everything in the directory outside the
\* schema region is as it was before the write.
C20_WriteThenRead ==
    (RoundTripDone /\ remoteSchema[1].version # Undefined) =>
        /\ error = None
        /\ localConfig # Null
        /\ localConfig[1].schema = remoteSchema[1]
        /\ Outside(localFile) = Outside(checked[1].before)

\* The write step has run on a directory that read accepted or found empty.
WriteAttempted == checked # Null /\ ~checked[1].read.threw

\* C21: whenever read finds a config file and returns a schema from it (any
\* accepted form, a .json file included), write succeeds, replaces the
\* schema in that same file and leaves the other files alone; write creates
\* basic.config.ts only when the directory holds no config file.
C21_WriteUpdatesFoundFile ==
    WriteAttempted =>
        LET before == checked[1].before
            found == checked[1].read.value
        IN IF found = Null
           THEN /\ before = NoFiles
                /\ error # "thrown: write"
                /\ localFile = [NoFiles EXCEPT !.ts = Some(generateConfigContent(remoteSchema[1]))]
           ELSE LET name == found[1].filePath
                    written == localFile[name][1]
                IN /\ error # "thrown: write"
                   /\ \A n \in {"ts", "js", "json"} \ {name} : localFile[n] = before[n]
                   /\ written[SchemaRegion(name, written)].body[1].version = remoteSchema[1].version
                   /\ written[SchemaRegion(name, written)].body[1].style = "json"

\* The schema literal of the file that read uses, Null when that file has
\* no schema node.
FirstLiteral(dir) ==
    LET name == FirstFile(dir)
        region == SchemaRegion(name, dir[name][1])
    IN IF region = 0 THEN Null ELSE dir[name][1][region].body

\* C22: read returns null only when none of the three config files exists;
\* otherwise it uses the first existing file in the order .ts, .js, .json,
\* and for every file type a schema without project_id or without a
\* numeric version makes read fail with an error.
C22_ReadOrderAndErrors ==
    checked # Null =>
        LET before == checked[1].before
            r == checked[1].read
        IN /\ (~r.threw /\ r.value = Null) <=> before = NoFiles
           /\ (~r.threw /\ r.value # Null) =>
                 /\ r.value[1].filePath = FirstFile(before)
                 /\ Some(Literal(r.value[1].schema, "js")) = FirstLiteral(before)
           /\ (before # NoFiles /\ FirstLiteral(before) # Null /\ FirstLiteral(before)[1].project_id = NoProjectId) => r.threw
           /\ (before # NoFiles /\ FirstLiteral(before) # Null /\ FirstLiteral(before)[1].version = Undefined) => r.threw

C23_WitnessPush ==
    /\ flow = "push" /\ phase = "success" /\ edits = 0
    /\ localFile = Some(checked[1].config.schema) /\ remoteStore = localFile

\* The push flow has just published a schema.
PushSucceeded == flow = "push" /\ phase = "success" /\ sent # Null

MaxData == 2

NotFound == 404

\* No HTTP answer at all: fetch itself rejected.
NoResponse == 0

\* The status codes told apart: two 2xx answers, 404, and other failures.
StatusCodes == {200, 201, 401, NotFound, 500}

\* `response.ok`
ResponseOk(response) == response.status >= 200 /\ response.status <= 299

\* The `data` list of the answer: up to MaxData entries {schema}.
DataLists == UNION {[1..n -> Schema] : n \in 0..MaxData}

\* What GET /project/:id/schema can answer, or no answer.
Responses == [status : StatusCodes \cup {NoResponse}, data : DataLists]

NoError == [name |-> None, statusCode |-> 0]

\* ApiClient.request: the parsed body of a 2xx answer; an ApiError with the
\* status code for any other answer; handleError's error when fetch
\* rejects.
ApiClient_request(response) ==
    IF response.status = NoResponse THEN [threw |-> TRUE, body |-> <<>>, error |-> [name |-> "NetworkError", statusCode |-> 0]]
    ELSE IF ~ResponseOk(response) THEN [threw |-> TRUE, body |-> <<>>, error |-> [name |-> "ApiError", statusCode |-> response.status]]
    ELSE [threw |-> FALSE, body |-> response.data, error |-> NoError]

\* getProjectSchema whose catch block rethrows everything.
ApiClient_getProjectSchema_No404(response) ==
    LET r == ApiClient_request(response)
    IN IF r.threw THEN [threw |-> TRUE, value |-> Null, error |-> r.error]
       ELSE IF Len(r.body) = 0 THEN [threw |-> FALSE, value |-> Null, error |-> NoError]
       ELSE [threw |-> FALSE, value |-> Some(r.body[1]), error |-> NoError]

\* ApiClient.getProjectSchema: null for an empty data list and for a 404,
\* the first entry's schema otherwise, any other error rethrown.
ApiClient_getProjectSchema(response) ==
    LET r == ApiClient_request(response)
    IN IF r.threw
       THEN IF r.error.name = "ApiError" /\ r.error.statusCode = NotFound
            THEN [threw |-> FALSE, value |-> Null, error |-> NoError]
            ELSE [threw |-> TRUE, value |-> Null, error |-> r.error]
       ELSE IF Len(r.body) = 0 THEN [threw |-> FALSE, value |-> Null, error |-> NoError]
       ELSE [threw |-> FALSE, value |-> Some(r.body[1]), error |-> NoError]

\* One call of getProjectSchema with any answer of the server; the answer
\* is kept in remoteStore, the outcome of the call in opResult.
ApiInit ==
    /\ flow = "pull"
    /\ phase = "checking"
    /\ pc = "fetchRemote"
    /\ error = None
    /\ statusResult = Null
    /\ selectedOption = "yes"
    /\ localFile = Null
    /\ remoteStore \in {Some(r) : r \in Responses}
    /\ valBehaviour = "valid"
    /\ cmpBehaviour = "truthful"
    /\ localConfig = Null
    /\ remoteSchema = Null
    /\ checked = Null
    /\ calls = NoCalls
    /\ sent = Null
    /\ opResult = Null
    /\ exitCode = Undefined
    /\ edits = 0

\* `await apiClient.getProjectSchema(projectId)`
ApiFetch ==
    /\ pc = "fetchRemote"
    /\ calls' = Called(calls, "fetch")
    /\ opResult' = Some(ApiClient_getProjectSchema(remoteStore[1]))
    /\ pc' = "idle"
    /\ UNCHANGED <<flow, phase, error, statusResult, selectedOption, localFile,
                   remoteStore, valBehaviour, cmpBehaviour, localConfig,
                   remoteSchema, checked, sent, exitCode, edits>>

ApiSpec == ApiInit /\ [][ApiFetch]_vars

\* C26: getProjectSchema returns null, not an error, when the answer has an
\* empty data list and when the server answers 404; for every other
\* non-2xx answer it fails with an ApiError carrying the status code;
\* otherwise it returns the schema of the first data entry.
C26_GetProjectSchema ==
    (opResult # Null /\ calls.fetch = 1) =>
        LET response == remoteStore[1]
            r == opResult[1]
        IN /\ (ResponseOk(response) /\ response.data = <<>>) => (~r.threw /\ r.value = Null)
           /\ response.status = NotFound => (~r.threw /\ r.value = Null)
           /\ (response.status \in StatusCodes \ {NotFound} /\ ~ResponseOk(response))
                 => (r.threw /\ r.error.name = "ApiError" /\ r.error.statusCode = response.status)
           /\ (ResponseOk(response) /\ response.data # <<>>) => (~r.threw /\ r.value = Some(response.data[1]))

C26_Witness ==
    /\ opResult # Null /\ calls.fetch = 1
    /\ remoteStore[1].status = NotFound /\ Len(remoteStore[1].data) = MaxData
    /\ ~opResult[1].threw /\ opResult[1].value = Null

\* ========================================================================
\* AuthService.getToken in detail (src/src/lib/errors.ts, the auth part)
\* ========================================================================
\* A token: expires_at is absent ("none"), before now ("past") or after
\* now ("future").
Tokens == [access_token : {"a0", "a1"}, refresh_token : {"r0", "r1"}, expires_at : {"none", "past", "future"}]

\* The token file: absent, unparseable, or a token.
Corrupt == [access_token |-> "", refresh_token |-> "", expires_at |-> "none"]

TokenFiles == Opt(Tokens \cup {Corrupt})

\* POST /auth/token: an answer with or without a new refresh_token, a
\* non-2xx answer, or no answer.
RefreshAnswers == {"ok", "ok-same-refresh", "not-ok", "reject"}

\* The write of the token file succeeds or fails (not with ENOENT: the
\* directory has just been made).
SaveAnswers == {"ok", "fail"}

\* `Date.now() > token.expires_at`, false without expires_at.
Expired(token) == token.expires_at = "past"

\* AuthService.refreshToken: the new token, or an AuthError.
refreshToken(token, answer) ==
    CASE answer = "ok" -> [threw |-> FALSE, token |-> [access_token |-> "a-new", refresh_token |-> "r-new", expires_at |-> "future"]]
      [] answer = "ok-same-refresh" -> [threw |-> FALSE, token |-> [access_token |-> "a-new", refresh_token |-> token.refresh_token, expires_at |-> "future"]]
      [] OTHER -> [threw |-> TRUE, token |-> token]

\* AuthService.saveToken: the token file after the write.
saveToken(file, token, answer) ==
    IF answer = "ok" THEN [threw |-> FALSE, file |-> Some(token)] ELSE [threw |-> TRUE, file |-> file]

\* getToken whose catch block answers null for every error.
AuthService_getToken_NullOnError(file, refresh, save) ==
    IF file = Null \/ file[1] = Corrupt THEN [threw |-> FALSE, value |-> Null, file |-> file]
    ELSE IF ~Expired(file[1]) THEN [threw |-> FALSE, value |-> file, file |-> file]
    ELSE LET r == refreshToken(file[1], refresh)
             s == saveToken(file, r.token, save)
         IN IF r.threw THEN [threw |-> FALSE, value |-> Null, file |-> file]
            ELSE IF s.threw THEN [threw |-> FALSE, value |-> Null, file |-> s.file]
            ELSE [threw |-> FALSE, value |-> Some(r.token), file |-> s.file]

\* AuthService.getToken: null without a token file (ENOENT), an error for
\* an unparseable file, the stored token when it is not expired, else the
\* refreshed token after it was saved; a failed refresh or save is raised.
AuthService_getToken(file, refresh, save) ==
    IF file = Null THEN [threw |-> FALSE, value |-> Null, file |-> file]
    ELSE IF file[1] = Corrupt THEN [threw |-> TRUE, value |-> Null, file |-> file]
    ELSE IF ~Expired(file[1]) THEN [threw |-> FALSE, value |-> file, file |-> file]
    ELSE LET r == refreshToken(file[1], refresh)
             s == saveToken(file, r.token, save)
         IN IF r.threw THEN [threw |-> TRUE, value |-> Null, file |-> file]
            ELSE IF s.threw THEN [threw |-> TRUE, value |-> Null, file |-> s.file]
            ELSE [threw |-> FALSE, value |-> Some(r.token), file |-> s.file]

\* One call of getToken: the token file is in localFile, the answers of the
\* refresh endpoint and of the file write in remoteStore, the token file
\* before the call in checked and the outcome in opResult.
AuthInit ==
    /\ flow = "status"
    /\ phase = "checking"
    /\ pc = "getToken"
    /\ error = None
    /\ statusResult = Null
    /\ selectedOption = "yes"
    /\ localFile \in TokenFiles
    /\ remoteStore \in {Some([refresh |-> r, save |-> s]) : r \in RefreshAnswers, s \in SaveAnswers}
    /\ valBehaviour = "valid"
    /\ cmpBehaviour = "truthful"
    /\ localConfig = Null
    /\ remoteSchema = Null
    /\ checked = Null
    /\ calls = NoCalls
    /\ sent = Null
    /\ opResult = Null
    /\ exitCode = Undefined
    /\ edits = 0

\* `const token = await authService.getToken()`
AuthGetToken ==
    /\ pc = "getToken"
    /\ calls' = Called(calls, "getToken")
    /\ LET r == AuthService_getToken(localFile, remoteStore[1].refresh, remoteStore[1].save)
       IN /\ opResult' = Some([threw |-> r.threw, value |-> r.value])
          /\ localFile' = r.file
    /\ checked' = Some([before |-> localFile])
    /\ pc' = "readLocal"
    /\ UNCHANGED <<flow, phase, error, statusResult, selectedOption, remoteStore,
                   valBehaviour, cmpBehaviour, localConfig, remoteSchema, sent,
                   exitCode, edits>>

AuthSpec == AuthInit /\ [][AuthGetToken]_vars

\* C27: getToken returns null if and only if no token is stored; when the
\* stored token is expired it returns the refreshed token, which is in the
\* token file when the call returns; it never returns an expired stored
\* token, and a failed refresh is raised as an error, not returned as null.
C27_GetToken ==
    (opResult # Null /\ calls.getToken = 1) =>
        LET before == checked[1].before
            r == opResult[1]
        IN /\ (~r.threw /\ r.value = Null) <=> before = Null
           /\ (before # Null /\ before[1] # Corrupt /\ Expired(before[1]) /\ ~r.threw) =>
                 /\ r.value # Null /\ r.value # before
                 /\ r.value[1].access_token = "a-new" /\ ~Expired(r.value[1])
                 /\ localFile = r.value
           /\ (~r.threw /\ r.value # Null) => ~Expired(r.value[1])
           /\ (before # Null /\ before[1] # Corrupt /\ Expired(before[1]) /\ remoteStore[1].refresh \in {"not-ok", "reject"})
                 => (r.threw /\ localFile = before)

C27_Witness ==
    /\ opResult # Null /\ calls.getToken = 1 /\ checked[1].before # Null
    /\ Expired(checked[1].before[1]) /\ remoteStore[1].refresh = "ok-same-refresh"
    /\ ~opResult[1].threw /\ opResult[1].value = localFile
    /\ localFile[1].refresh_token = checked[1].before[1].refresh_token

\* The refresh endpoint refuses: an error, the token file as it was.
C27_WitnessRefused ==
    /\ opResult # Null /\ calls.getToken = 1 /\ checked[1].before # Null
    /\ Expired(checked[1].before[1]) /\ remoteStore[1].refresh = "not-ok" /\ opResult[1].threw

\* ==========================================================================
\* `basic init`: InitApp's initialize effect and InitForm's handleSubmit.
\* The directory is localFile, the template the user selects is
\* selectedOption, the project's remote schema and whether the request for
\* it fails are remoteStore, the directory as it was at the start is
\* `checked`, and onSuccess's result is opResult.
\* ==========================================================================

\* CONFIG_TEMPLATES: the file each template creates, by extension.
ConfigTemplates == {"typescript", "javascript", "none"}

TemplateFile(template) == IF template = "typescript" THEN "ts" ELSE "js"

\* `module.exports = schema;`
ModuleExports == [head |-> "module.exports =", body |-> Null, semi |-> TRUE]

\* baseConfig: the project's id, version 0 and an example table.
baseConfig(projectId) == [project_id |-> projectId, version |-> 0, tables |-> "plain"]

\* config-templates' generateConfigContent(template, projectId, projectName):
\* `const schema = {...};` followed by `export default schema;` for
\* TypeScript and by `module.exports = schema;` for JavaScript.
ConfigTemplates_generateConfigContent(template, projectId) ==
    IF template = "typescript" THEN ConstDefault(JSONstringify(baseConfig(projectId)), TRUE)
    ELSE <<Decl("const schema =", JSONstringify(baseConfig(projectId)), TRUE), ModuleExports>>

\* createConfigFile(template, projectId, projectName): fs.writeFile of the
\* template's content, whatever the directory holds.
createConfigFile(dir, template, projectId) ==
    [dir EXCEPT ![TemplateFile(template)] = Some(ConfigTemplates_generateConfigContent(template, projectId))]

\* checkForExistingConfig(): the first config file that exists, "" for null.
checkForExistingConfig(dir) == FirstFile(dir)

\* The statements of a code file in which
\* /["']?project_id["']?\s*:\s*["']([^"']+)["']/ finds a project id.
ProjectIdMatches(content) == {i \in DOMAIN content : content[i].body # Null /\ content[i].body[1].project_id # NoProjectId}

\* readExistingConfig(): null without a file and when the regex finds no
\* project id in a code file, else {projectId}: `config.project_id` of a
\* .json file, the first match of a code file.
readExistingConfig(dir) ==
    LET name == checkForExistingConfig(dir)
    IN IF name = "" THEN Null
       ELSE IF name = "json" THEN Some([projectId |-> JSONparse(dir[name][1][1].body[1]).project_id])
       ELSE LET content == dir[name][1]
            IN IF ProjectIdMatches(content) = {} THEN Null
               ELSE Some([projectId |-> content[Min(ProjectIdMatches(content))].body[1].project_id])

\* `existingConfigPath` is set and `existingConfig?.projectId` is truthy.
ExistingConfigFound(dir) ==
    /\ checkForExistingConfig(dir) # ""
    /\ readExistingConfig(dir) # Null
    /\ readExistingConfig(dir)[1].projectId # NoProjectId

\* The project's remote schema, and whether the request for it fails.
RemoteProjects == [schema : Opt(ConfigSchemas), fails : BOOLEAN]

\* `await apiClient.getProjectSchema(projectId)` during init.
InitFetch(remote) == IF remote.fails THEN [threw |-> TRUE, value |-> Null] ELSE [threw |-> FALSE, value |-> remote.schema]

\* handleSubmit's inner try block: fetch the project's schema and, when
\* there is one with `version > 0`, saveSchemaToConfig it; any error is
\* logged as a warning and the directory stays as it is.
PullLatest(dir, remote) ==
    LET fetched == InitFetch(remote)
    IN IF fetched.threw \/ fetched.value = Null THEN dir
       ELSE IF ~(fetched.value[1].version > 0) THEN dir
       ELSE saveSchemaToDir(dir, fetched.value[1]).dir

InitInit ==
    /\ flow = "init"
    /\ phase = "loading"
    /\ pc = "initialize"
    /\ error = None
    /\ statusResult = Null
    /\ selectedOption \in ConfigTemplates
    /\ localFile \in Directories
    /\ remoteStore \in {Some(r) : r \in RemoteProjects}
    /\ valBehaviour = "valid"
    /\ cmpBehaviour = "truthful"
    /\ localConfig = Null
    /\ remoteSchema = Null
    /\ checked = Null
    /\ calls = NoCalls
    /\ sent = Null
    /\ opResult = Null
    /\ exitCode = Undefined
    /\ edits = 0

\* InitApp's `initialize`: offline, logged out, or an existing config with
\* a project id end in an error; otherwise the form is shown.
InitInitialize ==
    /\ pc = "initialize"
    /\ checked' = Some([before |-> localFile])
    /\ \E online \in BOOLEAN, token \in {"token", "null", "throws"} :
         IF ~online
         THEN phase' = "error" /\ error' = "OFFLINE" /\ pc' = "done" /\ calls' = Called(calls, "isOnline")
         ELSE IF token = "throws"
         THEN phase' = "error" /\ error' = "thrown: getToken" /\ pc' = "done" /\ calls' = Called(Called(calls, "isOnline"), "getToken")
         ELSE IF token = "null"
         THEN phase' = "error" /\ error' = "LOGGED_OUT" /\ pc' = "done" /\ calls' = Called(Called(calls, "isOnline"), "getToken")
         ELSE IF ExistingConfigFound(localFile)
         THEN phase' = "error" /\ error' = "A basic.config already exists in this directory" /\ pc' = "done" /\ calls' = Called(Called(calls, "isOnline"), "getToken")
         ELSE phase' = "form" /\ pc' = "form" /\ calls' = Called(Called(calls, "isOnline"), "getToken") /\ UNCHANGED error
    /\ UNCHANGED <<flow, statusResult, selectedOption, localFile, remoteStore,
                   valBehaviour, cmpBehaviour, localConfig, remoteSchema, sent,
                   opResult, exitCode, edits>>

\* InitForm's handleSubmit: create or get the project, create the config
\* file of the selected template, pull the latest schema into it, report
\* success. A failing project request or file write shows the error.
InitSubmit ==
    /\ pc = "form"
    /\ \E projectOk \in BOOLEAN, writeOk \in BOOLEAN :
         IF ~projectOk
         THEN error' = "thrown: project" /\ pc' = "done" /\ UNCHANGED <<phase, localFile, opResult, calls>>
         ELSE IF selectedOption = "none"
         THEN phase' = "success" /\ pc' = "exit" /\ opResult' = Some([configPath |-> ""]) /\ UNCHANGED <<error, localFile, calls>>
         ELSE IF ~writeOk
         THEN error' = "Failed to create config file" /\ pc' = "done" /\ calls' = Called(calls, "write") /\ UNCHANGED <<phase, localFile, opResult>>
         ELSE /\ localFile' = PullLatest(createConfigFile(localFile, selectedOption, "p1"), remoteStore[1])
              /\ calls' = Called(Called(calls, "write"), "fetch")
              /\ phase' = "success"
              /\ pc' = "exit"
              /\ opResult' = Some([configPath |-> TemplateFile(selectedOption)])
              /\ UNCHANGED error
    /\ UNCHANGED <<flow, statusResult, selectedOption, remoteStore,
                   valBehaviour, cmpBehaviour, localConfig, remoteSchema,
                   checked, sent, exitCode, edits>>

\* handleCancel: `process.exit(0)` from the form.
InitCancel ==
    /\ pc = "form"
    /\ exitCode' = 0
    /\ pc' = "done"
    /\ UNCHANGED <<flow, phase, error, statusResult, selectedOption, localFile,
                   remoteStore, valBehaviour, cmpBehaviour, localConfig,
                   remoteSchema, checked, calls, sent, opResult, edits>>

\* handleSuccess's timer: `process.exit(0)` two seconds after success.
InitExit ==
    /\ pc = "exit"
    /\ exitCode' = 0
    /\ pc' = "done"
    /\ UNCHANGED <<flow, phase, error, statusResult, selectedOption, localFile,
                   remoteStore, valBehaviour, cmpBehaviour, localConfig,
                   remoteSchema, checked, calls, sent, opResult, edits>>

InitNext ==
    \/ InitInitialize
    \/ InitSubmit
    \/ InitCancel
    \/ InitExit

InitSpec == InitInit /\ [][InitNext]_vars

\* The file holds the schema: one of its statements is a literal of it.
FileContains(dir, name, schema) ==
    /\ dir[name] # Null
    /\ \E i \in DOMAIN dir[name][1] : dir[name][1][i].body # Null /\ JSONparse(dir[name][1][i].body[1]) = schema

\* init completed successfully with a TypeScript or JavaScript template.
InitCompleted == flow = "init" /\ phase = "success" /\ selectedOption # "none"

\* C28: after `basic init` completes successfully with a TypeScript or
\* JavaScript template, if the project has a remote schema with a version
\* above 0, the created config file contains that remote schema.
C28_InitPullsRemoteSchema ==
    (InitCompleted /\ remoteStore[1].schema # Null /\ remoteStore[1].schema[1].version > 0) =>
        FileContains(localFile, opResult[1].configPath, remoteStore[1].schema[1])

\* C29: if any of basic.config.ts, basic.config.js or basic.config.json
\* exists in the working directory, `basic init` stops with an error before
\* showing the form and never creates or overwrites a config file.
C29_ExistingConfigStopsInit ==
    (flow = "init" /\ checked # Null /\ checkForExistingConfig(checked[1].before) # "") =>
        /\ phase = "error"
        /\ localFile = checked[1].before

\* C30: in the push flow, whenever the push endpoint is called, the schema
\* passed has a version strictly greater than the remote version recorded
\* during checking and is the schema the validation endpoint accepted, so
\* a success report shows new version > old version; also when the local
\* file is edited while the confirmation prompt is open.
C30_PushedAheadAndValidated ==
    (flow = "push" /\ sent # Null) =>
        /\ OrZero(sent[1].version) > statusResult[1].remoteVersion
        /\ valBehaviour = "valid"
        /\ sent = Some(checked[1].config.schema)
        /\ (phase = "success" => opResult[1].newVersion > opResult[1].oldVersion)

\* ==========================================================================
\* `basic pull` on a directory whose config may be a basic.config.json
\* ==========================================================================
\* A version below zero: JSON.parse gives it for `"version": -2` and the
\* .json branch of readSchemaFromConfig checks project_id only.
NegativeVersion == -2

\* Schemas a basic.config.json can hold besides those of Schema.
NegativeSchemas == [project_id : ProjectIds, version : {NegativeVersion}, tables : Tables]

\* `basic pull` started in a directory with any of these config files.
PullInit ==
    /\ flow = "pull"
    /\ phase = "checking"
    /\ pc = "isOnline"
    /\ error = None
    /\ statusResult = Null
    /\ selectedOption = "yes"
    /\ localFile \in LocalFiles \cup {Some(s) : s \in NegativeSchemas}
    /\ remoteStore \in RemoteStores
    /\ valBehaviour \in ValidateBehaviours
    /\ cmpBehaviour \in CompareBehaviours
    /\ localConfig = Null
    /\ remoteSchema = Null
    /\ checked = Null
    /\ calls = NoCalls
    /\ sent = Null
    /\ opResult = Null
    /\ exitCode = Undefined
    /\ edits = 0

PullNext ==
    \/ CheckOnline
    \/ CheckToken
    \/ ReadLocal
    \/ FetchRemote
    \/ Analyze
    \/ KeyPress
    \/ HandlerRead
    \/ HandlePullFetch
    \/ HandlePullSave
    \/ Exit
    \/ EditLocal
    \/ EditRemote

PullSpec == PullInit /\ [][PullNext]_vars

\* C31: the pull flow never writes the synthesized empty schema to the
\* local file: when the project has no remote schema (none at the start,
\* nobody created one) the flow never reaches `confirming`, what a write
\* stores is the schema the backend holds, and when the re-fetch finds no
\* remote schema the flow ends in `error` without a write.
C31_NeverWritesSynthesized ==
    flow = "pull" =>
        /\ (remoteStore = Null /\ edits = 0) => phase # "confirming"
        /\ calls.write > 0 => (remoteStore # Null /\ remoteSchema = remoteStore)
        /\ (calls.fetch = 2 /\ remoteStore = Null) => (phase = "error" /\ calls.write = 0)

\* ==========================================================================
\* `basic status` run after a push or a pull that ended in `success`
\* ==========================================================================
\* A push or a pull is started.
FollowInit == Init /\ flow \in {"push", "pull"}

\* The push or pull process has exited after `success`; the user starts
\* `basic status`: a new StatusApp in phase `checking`, on the local file
\* and the remote schema as they are.  opResult (and sent, for a push)
\* keep what the run before did.
StartStatus ==
    /\ flow \in {"push", "pull"}
    /\ phase = "success"
    /\ pc = "exited"
    /\ flow' = "status"
    /\ phase' = "checking"
    /\ pc' = "isOnline"
    /\ error' = None
    /\ statusResult' = Null
    /\ localConfig' = Null
    /\ remoteSchema' = Null
    /\ calls' = NoCalls
    /\ exitCode' = Undefined
    /\ UNCHANGED <<selectedOption, localFile, remoteStore, valBehaviour,
                   cmpBehaviour, checked, sent, opResult, edits>>

FollowNext ==
    \/ Next
    \/ StartStatus

FollowSpec == FollowInit /\ [][FollowNext]_vars

\* The status run after a successful push or pull has analyzed.
FollowingStatusAnalyzed == flow = "status" /\ opResult # Null /\ calls.analyze = 1

\* C32: after a push or a pull that ended in `success`, with nobody
\* changing the local file or the remote schema afterwards, a following
\* status run sees equal local and remote versions, both at least 1, and
\* reports `current` when the content comparison answers truthfully.
C32_StatusAfterSuccess ==
    FollowingStatusAnalyzed =>
        /\ statusResult[1].localVersion = statusResult[1].remoteVersion
        /\ statusResult[1].localVersion >= 1
        /\ cmpBehaviour = "truthful" => statusResult[1].status = "current"

\* What readSchemaFromConfig makes of one file of the directory.
ReadOf(dir, name) ==
    LET parsed == ParseFile(name, dir[name][1])
    IN ~parsed.threw /\ parsed.value[1].project_id # NoProjectId

\* C33: every config file that `basic init` creates (TypeScript template
\* and JavaScript template) is accepted by read, so that a status, push or
\* pull run directly after a successful init gets past the local read.
C33_CreatedConfigIsReadable ==
    InitCompleted =>
        /\ localFile[opResult[1].configPath] # Null
        /\ ReadOf(localFile, opResult[1].configPath)

\* ==========================================================================
\* The init wizard (InitForm): steps, option lists and the highlighted index.
\* The step is `phase`, selectedOptionIndex is `selectedOption`, the form
\* state (source, availableTeams, availableProjects, whether projectName is
\* non-empty, showTeamForm) is localConfig, the lists the backend holds are
\* remoteStore, `pc` tells whether loadData is still pending, and `checked`
\* records the last Enter handled on a selection step.
\* ==========================================================================
\* Teams and projects an account has at most.
MaxList == 2

SelectionSteps == {"source", "team-selection", "existing-selection", "config-template", "confirmation"}

\* getOptionsForCurrentStep().length
OptionCount(step, form) ==
    CASE step = "source" -> 2
      [] step = "team-selection" -> form.availableTeams + 1
      [] step = "existing-selection" -> form.availableProjects
      [] step = "config-template" -> Cardinality(ConfigTemplates)
      [] step = "confirmation" -> 2
      [] OTHER -> 0

\* useState of InitForm for the initialData that parseCliOptions gives.
WizardInit ==
    /\ flow = "init"
    /\ \E source \in {"none", "new", "existing"}, named \in BOOLEAN :
         /\ phase = (IF source = "none" THEN "source" ELSE IF source = "new" THEN "project-details" ELSE "existing-selection")
         /\ localConfig = Some([source |-> source, availableTeams |-> 0, availableProjects |-> 0, named |-> named, showTeamForm |-> FALSE])
    /\ pc = "loading"
    /\ error = None
    /\ statusResult = Null
    /\ selectedOption = 0
    /\ localFile = Null
    /\ remoteStore \in {Some(r) : r \in [teams : 0..MaxList, projects : 0..MaxList]}
    /\ valBehaviour = "valid"
    /\ cmpBehaviour = "truthful"
    /\ remoteSchema = Null
    /\ checked = Null
    /\ calls = NoCalls
    /\ sent = Null
    /\ opResult = Null
    /\ exitCode = Undefined
    /\ edits = 0

WizardRunning == flow = "init" /\ phase \notin {"submitted", "cancelled", "crashed"}

\* loadData settles: the lists are stored, or the error is.
LoadData ==
    /\ WizardRunning
    /\ pc = "loading"
    /\ pc' = "loaded"
    /\ \E ok \in BOOLEAN :
         IF ok
         THEN localConfig' = Some([localConfig[1] EXCEPT !.availableTeams = remoteStore[1].teams, !.availableProjects = remoteStore[1].projects]) /\ UNCHANGED error
         ELSE error' = "thrown: loadData" /\ UNCHANGED localConfig
    /\ UNCHANGED <<flow, phase, statusResult, selectedOption, localFile, remoteStore,
                   valBehaviour, cmpBehaviour, remoteSchema, checked, calls, sent,
                   opResult, exitCode, edits>>

\* handleSelectionInput: upArrow and downArrow.
ArrowKey ==
    /\ WizardRunning
    /\ ~localConfig[1].showTeamForm
    /\ phase \in SelectionSteps
    /\ LET n == OptionCount(phase, localConfig[1])
       IN \E up \in BOOLEAN :
            selectedOption' = IF up THEN (IF selectedOption > 0 THEN selectedOption - 1 ELSE n - 1)
                              ELSE (IF selectedOption < n - 1 THEN selectedOption + 1 ELSE 0)
    /\ UNCHANGED <<flow, phase, pc, error, statusResult, localFile, remoteStore,
                   valBehaviour, cmpBehaviour, localConfig, remoteSchema, checked,
                   calls, sent, opResult, exitCode, edits>>

\* handleProjectDetailsInput: typing or deleting changes whether the name is
\* empty; Enter goes on only with a name.
ProjectDetailsKey ==
    /\ WizardRunning
    /\ phase = "project-details"
    /\ \/ /\ \E named \in BOOLEAN : localConfig' = Some([localConfig[1] EXCEPT !.named = named])
          /\ UNCHANGED <<phase, selectedOption>>
       \/ /\ localConfig[1].named
          /\ phase' = "team-selection"
          /\ selectedOption' = 0
          /\ UNCHANGED localConfig
    /\ UNCHANGED <<flow, pc, error, statusResult, localFile, remoteStore,
                   valBehaviour, cmpBehaviour, remoteSchema, checked, calls, sent,
                   opResult, exitCode, edits>>

\* The step handleOptionSelection goes to; `options[selectedOptionIndex]`
\* outside the list is undefined and reading its `value` throws.
AfterSelection(step, index, form) ==
    IF index < 0 \/ index >= OptionCount(step, form) THEN "crashed"
    ELSE CASE step = "source" -> (IF index = 0 THEN "project-details" ELSE "existing-selection")
           [] step = "team-selection" -> (IF index = form.availableTeams THEN "team-selection" ELSE "config-template")
           [] step = "existing-selection" -> "config-template"
           [] step = "config-template" -> "confirmation"
           [] OTHER -> (IF index = 0 THEN "submitted" ELSE "config-template")

\* handleSelectionInput: Enter, that is handleOptionSelection.
EnterKey ==
    /\ WizardRunning
    /\ ~localConfig[1].showTeamForm
    /\ phase \in SelectionSteps
    /\ checked' = Some([step |-> phase, index |-> selectedOption, options |-> OptionCount(phase, localConfig[1])])
    /\ LET next == AfterSelection(phase, selectedOption, localConfig[1])
       IN /\ phase' = next
          /\ error' = IF next = "crashed" THEN "TypeError" ELSE error
          /\ IF phase = "source"
             THEN localConfig' = Some([localConfig[1] EXCEPT !.source = IF selectedOption = 0 THEN "new" ELSE "existing"])
             ELSE IF phase = "team-selection" /\ next = "team-selection"
             THEN localConfig' = Some([localConfig[1] EXCEPT !.showTeamForm = TRUE])
             ELSE UNCHANGED localConfig
          /\ selectedOption' = IF next \in {"crashed", "submitted", "team-selection"} THEN selectedOption ELSE 0
    /\ UNCHANGED <<flow, pc, statusResult, localFile, remoteStore, valBehaviour,
                   cmpBehaviour, remoteSchema, calls, sent, opResult, exitCode, edits>>

\* The step goToPreviousStep goes to.
PreviousStep(step, form) ==
    CASE step = "project-details" -> "source"
      [] step = "team-selection" -> "project-details"
      [] step = "existing-selection" -> "source"
      [] step = "config-template" -> (IF form.source = "new" THEN "team-selection" ELSE "existing-selection")
      [] OTHER -> "config-template"

\* Escape: onCancel on the first step, else goToPreviousStep.
EscapeKey ==
    /\ WizardRunning
    /\ ~localConfig[1].showTeamForm
    /\ IF phase = "source"
       THEN phase' = "cancelled" /\ UNCHANGED selectedOption
       ELSE phase' = PreviousStep(phase, localConfig[1]) /\ selectedOption' = 0
    /\ UNCHANGED <<flow, pc, error, statusResult, localFile, remoteStore,
                   valBehaviour, cmpBehaviour, localConfig, remoteSchema, checked,
                   calls, sent, opResult, exitCode, edits>>

\* TeamForm: onCancel closes it; onSubmit is handleTeamCreated, which adds
\* the team and goes to the template step, or stores the error.
TeamFormDone ==
    /\ WizardRunning
    /\ localConfig[1].showTeamForm
    /\ \E outcome \in {"cancel", "created", "failed"} :
         CASE outcome = "cancel" ->
                /\ localConfig' = Some([localConfig[1] EXCEPT !.showTeamForm = FALSE])
                /\ UNCHANGED <<phase, selectedOption, error>>
           [] outcome = "created" ->
                /\ localConfig[1].availableTeams < MaxList + 1
                /\ localConfig' = Some([localConfig[1] EXCEPT !.showTeamForm = FALSE, !.availableTeams = @ + 1])
                /\ phase' = "config-template"
                /\ selectedOption' = 0
                /\ UNCHANGED error
           [] OTHER ->
                /\ error' = "thrown: createTeam"
                /\ UNCHANGED <<phase, selectedOption, localConfig>>
    /\ UNCHANGED <<flow, pc, statusResult, localFile, remoteStore, valBehaviour,
                   cmpBehaviour, remoteSchema, checked, calls, sent, opResult,
                   exitCode, edits>>

WizardNext ==
    \/ LoadData
    \/ ArrowKey
    \/ ProjectDetailsKey
    \/ EnterKey
    \/ EscapeKey
    \/ TeamFormDone

WizardSpec == WizardInit /\ [][WizardNext]_vars

\* C34: whenever Enter is handled on a selection step of the init wizard,
\* the highlighted index refers to an existing option (0 <= index < number
\* of options), so the selection resolves to an option; also on the
\* existing-project step when the project list is empty or not yet loaded.
C34_IndexInRange ==
    (flow = "init" /\ checked # Null) =>
        /\ 0 <= checked[1].index
        /\ checked[1].index < checked[1].options
        /\ phase # "crashed"

\* ==========================================================================
\* AuthService.logout, with login and getToken around it.  The token file is
\* localFile; the last logout is recorded in localConfig and the one before
\* it in remoteSchema; `sent` holds the token of a login made after a
\* logout; `edits` counts the logouts.
\* ==========================================================================
\* Logouts in one run.
MaxLogouts == 2

\* fs.unlink on the token path: it removes the file or answers ENOENT when
\* there is none ("ok"), or fails for another reason such as EACCES.
UnlinkAnswers == {"ok", "EACCES"}

\* deleteToken that raises every error of unlink, ENOENT included.
deleteToken_RaiseAll(file, answer) ==
    IF answer = "EACCES" \/ file = Null THEN [threw |-> TRUE, file |-> file]
    ELSE [threw |-> FALSE, file |-> Null]

\* AuthService.deleteToken: unlink the token file; ENOENT is ignored, any
\* other error is raised.
deleteToken(file, answer) ==
    IF answer = "EACCES" THEN [threw |-> TRUE, file |-> file]
    ELSE [threw |-> FALSE, file |-> Null]

\* AuthService.logout: deleteToken, its error raised through handleError.
AuthService_logout(file, answer) == deleteToken(file, answer)

LogoutInit ==
    /\ flow = "logout"
    /\ phase = "checking"
    /\ pc = "logout"
    /\ error = None
    /\ statusResult = Null
    /\ selectedOption = "yes"
    /\ localFile \in TokenFiles
    /\ remoteStore \in {Some([refresh |-> r, save |-> s]) : r \in RefreshAnswers, s \in SaveAnswers}
    /\ valBehaviour = "valid"
    /\ cmpBehaviour = "truthful"
    /\ localConfig = Null
    /\ remoteSchema = Null
    /\ checked = Null
    /\ calls = NoCalls
    /\ sent = Null
    /\ opResult = Null
    /\ exitCode = Undefined
    /\ edits = 0

\* `await authService.logout()`; afterwards the user logs out again, or
\* goes on to a command that asks for the token.
AuthLogout ==
    /\ pc = "logout"
    /\ edits < MaxLogouts
    /\ edits' = edits + 1
    /\ \E answer \in UnlinkAnswers :
         LET r == AuthService_logout(localFile, answer)
         IN /\ localFile' = r.file
            /\ localConfig' = Some([threw |-> r.threw, before |-> localFile, answer |-> answer])
            /\ error' = IF r.threw THEN "thrown: logout" ELSE error
    /\ remoteSchema' = localConfig
    /\ pc' \in {"logout", "getToken"}
    /\ UNCHANGED <<flow, phase, statusResult, selectedOption, remoteStore,
                   valBehaviour, cmpBehaviour, checked, calls, sent, opResult,
                   exitCode>>

\* `basic login` after a logout: the OAuth flow gives a token and
\* saveToken stores it, or an error is raised and the file stays.
AuthLogin ==
    /\ pc = "getToken"
    /\ flow = "logout"
    /\ sent = Null
    /\ \E token \in {t \in Tokens : t.access_token = "a1" /\ t.refresh_token = "r1"}, ok \in BOOLEAN :
         IF ok THEN localFile' = Some(token) /\ sent' = Some(token) /\ UNCHANGED error
         ELSE error' = "thrown: login" /\ UNCHANGED <<localFile, sent>>
    /\ UNCHANGED <<flow, phase, pc, statusResult, selectedOption, remoteStore,
                   valBehaviour, cmpBehaviour, localConfig, remoteSchema, checked,
                   calls, opResult, exitCode, edits>>

LogoutNext ==
    \/ AuthLogout
    \/ AuthLogin
    \/ AuthGetToken

LogoutSpec == LogoutInit /\ [][LogoutNext]_vars

\* The last logout returned normally.
LoggedOut == flow = "logout" /\ localConfig # Null /\ ~localConfig[1].threw

\* C35: logout succeeds whether or not a token is stored (a missing token
\* file is not an error, any other delete failure is raised); after a
\* successful logout getToken returns null until the next login; logging
\* out twice gives the same state as logging out once.
C35_Logout ==
    (flow = "logout" /\ localConfig # Null) =>
        /\ localConfig[1].threw <=> localConfig[1].answer # "ok"
        /\ (localConfig[1].threw /\ opResult = Null /\ sent = Null) => localFile = localConfig[1].before
        /\ (LoggedOut /\ sent = Null) => localFile = Null
        /\ (LoggedOut /\ sent = Null /\ opResult # Null) => (~opResult[1].threw /\ opResult[1].value = Null)
        /\ (LoggedOut /\ sent # Null /\ opResult # Null /\ ~opResult[1].threw) => opResult[1].value # Null
        /\ (LoggedOut /\ remoteSchema # Null /\ ~remoteSchema[1].threw) => localConfig[1].before = Null

\* Two successful logouts, the second without a token file, then getToken.
C35_Witness ==
    /\ LoggedOut /\ edits = 2 /\ remoteSchema # Null /\ ~remoteSchema[1].threw
    /\ remoteSchema[1].before # Null /\ localConfig[1].before = Null
    /\ opResult # Null /\ opResult[1].value = Null /\ localFile = Null

\* A failed delete is raised and the token stays.
C35_WitnessRaised ==
    /\ flow = "logout" /\ localConfig # Null /\ localConfig[1].threw
    /\ localConfig[1].before # Null /\ localFile = localConfig[1].before

\* ==========================================================================
\* handleError (src/src/lib/errors.ts).  The value thrown is in `checked`,
\* handleError of it in opResult, handleError of that in `sent`.
\* ==========================================================================
\* The substrings handleError looks for in a message.
Patterns == {"ENOTFOUND", "network", "unauthorized", "401", "invalid character"}

\* A message: the substrings of Patterns it contains, and the rest of it.
Messages == [has : SUBSET Patterns, text : {"m1", "m2"}]

\* A message with a fixed text that contains none of the substrings.
FixedMessage(text) == [has |-> {}, text |-> text]

\* Classes for which `instanceof BasicCliError` holds.
BasicCliErrorKinds == {"BasicCliError", "AuthError", "ApiError", "SchemaError", "NetworkError"}

\* Other classes for which `instanceof Error` holds.
ErrorKinds == {"Error", "TypeError"}

\* Values that are not an Error: a string, null, an object such as {code}.
NonErrorKinds == {"string", "null", "object"}

\* The `code` a class sets; a BasicCliError is given its code.
CodeOf(kind) ==
    CASE kind = "AuthError" -> "AUTH_ERROR"
      [] kind = "ApiError" -> "API_ERROR"
      [] kind = "SchemaError" -> "SCHEMA_ERROR"
      [] kind = "NetworkError" -> "NETWORK_ERROR"
      [] kind = "BasicCliError" -> "TEST"
      [] OTHER -> ""

\* Values that can be thrown; `id` tells two objects of equal content apart.
Thrown == {[kind |-> k, message |-> m, code |-> CodeOf(k), id |-> i] : k \in BasicCliErrorKinds \cup ErrorKinds \cup NonErrorKinds, m \in Messages, i \in {1, 2}}

\* `new C(message)`: an object that did not exist before (id 0).
NewError(kind, message, code) == [kind |-> kind, message |-> message, code |-> code, id |-> 0]

\* `error.message.includes(p)`
Includes(e, p) == p \in e.message.has

\* handleError that looks for the auth patterns before the network ones.
handleError_AuthFirst(e) ==
    IF e.kind \in BasicCliErrorKinds THEN e
    ELSE IF e.kind \in ErrorKinds
    THEN IF Includes(e, "unauthorized") \/ Includes(e, "401") THEN NewError("AuthError", FixedMessage("Authentication failed"), "AUTH_ERROR")
         ELSE IF Includes(e, "ENOTFOUND") \/ Includes(e, "network") THEN NewError("NetworkError", FixedMessage("Network connection failed"), "NETWORK_ERROR")
         ELSE IF Includes(e, "invalid character") THEN NewError("SchemaError", FixedMessage("Invalid schema format"), "SCHEMA_ERROR")
         ELSE NewError("BasicCliError", e.message, "UNKNOWN_ERROR")
    ELSE NewError("BasicCliError", FixedMessage("An unknown error occurred"), "UNKNOWN_ERROR")

\* handleError(error)
handleError(e) ==
    IF e.kind \in BasicCliErrorKinds THEN e
    ELSE IF e.kind \in ErrorKinds
    THEN IF Includes(e, "ENOTFOUND") \/ Includes(e, "network") THEN NewError("NetworkError", FixedMessage("Network connection failed"), "NETWORK_ERROR")
         ELSE IF Includes(e, "unauthorized") \/ Includes(e, "401") THEN NewError("AuthError", FixedMessage("Authentication failed"), "AUTH_ERROR")
         ELSE IF Includes(e, "invalid character") THEN NewError("SchemaError", FixedMessage("Invalid schema format"), "SCHEMA_ERROR")
         ELSE NewError("BasicCliError", e.message, "UNKNOWN_ERROR")
    ELSE NewError("BasicCliError", FixedMessage("An unknown error occurred"), "UNKNOWN_ERROR")

\* Some call has thrown a value.
ErrorInit ==
    /\ flow = "status"
    /\ phase = "checking"
    /\ pc = "catch"
    /\ error = None
    /\ statusResult = Null
    /\ selectedOption = "yes"
    /\ localFile = Null
    /\ remoteStore = Null
    /\ valBehaviour = "valid"
    /\ cmpBehaviour = "truthful"
    /\ localConfig = Null
    /\ remoteSchema = Null
    /\ checked \in {Some(e) : e \in Thrown}
    /\ calls = NoCalls
    /\ sent = Null
    /\ opResult = Null
    /\ exitCode = Undefined
    /\ edits = 0

\* `catch (error) { throw handleError(error); }`
ErrorCaught ==
    /\ pc = "catch"
    /\ opResult' = Some(handleError(checked[1]))
    /\ pc' = "rethrown"
    /\ UNCHANGED <<flow, phase, error, statusResult, selectedOption, localFile,
                   remoteStore, valBehaviour, cmpBehaviour, localConfig,
                   remoteSchema, checked, calls, sent, exitCode, edits>>

\* An outer catch block applies handleError to what the inner one threw.
ErrorCaughtAgain ==
    /\ pc = "rethrown"
    /\ sent' = Some(handleError(opResult[1]))
    /\ pc' = "done"
    /\ UNCHANGED <<flow, phase, error, statusResult, selectedOption, localFile,
                   remoteStore, valBehaviour, cmpBehaviour, localConfig,
                   remoteSchema, checked, calls, opResult, exitCode, edits>>

ErrorNext ==
    \/ ErrorCaught
    \/ ErrorCaughtAgain

ErrorSpec == ErrorInit /\ [][ErrorNext]_vars

\* C36: handleError returns a BasicCliError unchanged (so applying it twice
\* equals applying it once), maps any other Error by the first matching
\* rule in the order network (ENOTFOUND/network), auth (unauthorized/401),
\* schema (invalid character), unknown with the original message, and maps
\* a value that is not an Error to the fixed unknown error.
C36_HandleError ==
    (pc \in {"rethrown", "done"} /\ opResult # Null) =>
        LET e == checked[1]
            r == opResult[1]
            network == Includes(e, "ENOTFOUND") \/ Includes(e, "network")
            auth == Includes(e, "unauthorized") \/ Includes(e, "401")
            schema == Includes(e, "invalid character")
        IN /\ e.kind \in BasicCliErrorKinds => r = e
           /\ (e.kind \in ErrorKinds /\ network) => (r.kind = "NetworkError" /\ r.code = "NETWORK_ERROR")
           /\ (e.kind \in ErrorKinds /\ ~network /\ auth) => (r.kind = "AuthError" /\ r.message = FixedMessage("Authentication failed"))
           /\ (e.kind \in ErrorKinds /\ ~network /\ ~auth /\ schema) => (r.kind = "SchemaError" /\ r.message = FixedMessage("Invalid schema format"))
           /\ (e.kind \in ErrorKinds /\ ~network /\ ~auth /\ ~schema) => (r.kind = "BasicCliError" /\ r.code = "UNKNOWN_ERROR" /\ r.message = e.message)
           /\ e.kind \in NonErrorKinds => (r.kind = "BasicCliError" /\ r.code = "UNKNOWN_ERROR" /\ r.message = FixedMessage("An unknown error occurred"))
           /\ r.kind \in BasicCliErrorKinds
           /\ sent # Null => sent = opResult

\* An Error whose message matches the network and the auth rule, handled
\* twice.
C36_Witness ==
    /\ pc = "done" /\ sent # Null /\ checked[1].kind = "Error"
    /\ Includes(checked[1], "network") /\ Includes(checked[1], "401")
    /\ opResult[1].kind = "NetworkError" /\ sent = opResult

\* A BasicCliError instance comes back as the same object.
C36_WitnessUnchanged ==
    /\ pc = "done" /\ checked[1].kind = "ApiError" /\ Includes(checked[1], "401")
    /\ opResult = checked /\ opResult[1].id = 2

====
